---- MODULE Spec2Model ----
(***************************************************************************)
(* Model of the exam-paper scraper: the resumable orchestrator of main.py  *)
(* (scrape_pmt_papers with its ledger, retry and validation steps) and the *)
(* multi-board orchestrator of scrapers.py (scrape_papers).                *)
(*                                                                         *)
(* Text (anchor text, hrefs, headings, file names) is a sequence of        *)
(* one-character strings, so that searches, regular expressions, case      *)
(* conversion and sanitising are computed as the code computes them.       *)
(***************************************************************************)
EXTENDS Integers, Sequences, FiniteSets, TLC

\* Python's None, a value that is no text.
None == <<"None">>

(***************************************************************************)
(* Bounds of the model.                                                    *)
(***************************************************************************)
\* Number of runs of the orchestrator against the same ledger file.
MaxRuns == 2
\* Number of faults of the environment in one behaviour.
MaxFaults == 2

\* Rows of a ledger the ledger functions are called on.
MaxRows == 3

\* Sibling elements of a page given to the section walk on its own.
MaxElements == 3

(***************************************************************************)
(* Text primitives: str.lower, str.upper, str.capitalize, "in",            *)
(* str.startswith, str.endswith, str.strip, os.path.basename, re.sub.      *)
(***************************************************************************)
Letters == <<"a", "b", "c", "d", "e", "f", "g", "h", "i", "j", "k", "l", "m", "n", "o", "p", "q", "r", "s", "t", "u", "v", "w", "x", "y", "z">>
Caps == <<"A", "B", "C", "D", "E", "F", "G", "H", "I", "J", "K", "L", "M", "N", "O", "P", "Q", "R", "S", "T", "U", "V", "W", "X", "Y", "Z">>
Digits == {"0", "1", "2", "3", "4", "5", "6", "7", "8", "9"}

LowerChar(c) ==
    IF \E i \in 1..26 : Caps[i] = c
    THEN Letters[CHOOSE i \in 1..26 : Caps[i] = c]
    ELSE c

UpperChar(c) ==
    IF \E i \in 1..26 : Letters[i] = c
    THEN Caps[CHOOSE i \in 1..26 : Letters[i] = c]
    ELSE c

Lower(s) == [i \in 1..Len(s) |-> LowerChar(s[i])]
Upper(s) == [i \in 1..Len(s) |-> UpperChar(s[i])]
\* str.capitalize: first character upper case, the rest lower case.
Capitalize(s) == [i \in 1..Len(s) |-> IF i = 1 THEN UpperChar(s[i]) ELSE LowerChar(s[i])]

MatchAt(s, p, i) ==
    /\ i >= 1
    /\ i + Len(p) - 1 <= Len(s)
    /\ \A k \in 1..Len(p) : s[i + k - 1] = p[k]

\* Python's "p in s".
Contains(s, p) == \E i \in 1..(Len(s) - Len(p) + 1) : MatchAt(s, p, i)

Min(S) == CHOOSE i \in S : \A j \in S : i <= j
Max(S) == CHOOSE i \in S : \A j \in S : i >= j

\* str.strip(): leading and trailing white space removed.
Strip(s) ==
    LET keep == {i \in 1..Len(s) : s[i] # " "}
    IN  IF keep = {} THEN <<>> ELSE SubSeq(s, Min(keep), Max(keep))

\* str.replace(" ", "_").
SpacesToUnderscores(s) == [i \in 1..Len(s) |-> IF s[i] = " " THEN "_" ELSE s[i]]

\* os.path.basename: what follows the last "/".
Basename(s) ==
    LET slashes == {i \in 1..Len(s) : s[i] = "/"}
    IN  IF slashes = {} THEN s ELSE SubSeq(s, Max(slashes) + 1, Len(s))

\* re.sub(r'[<>:"/\\|?*]', '_', filename)
Sanitize(s) ==
    [i \in 1..Len(s) |->
        IF s[i] \in {"<", ">", ":", "\"", "/", "\\", "|", "?", "*"} THEN "_" ELSE s[i]]

(***************************************************************************)
(* String literals of main.py.                                             *)
(***************************************************************************)
S_edexcel == <<"e", "d", "e", "x", "c", "e", "l">>
S_alevel == <<"a", "l", "e", "v", "e", "l">>
S_Paper1 == <<"P", "a", "p", "e", "r", " ", "1">>
S_Paper2 == <<"P", "a", "p", "e", "r", " ", "2">>
S_Paper3 == <<"P", "a", "p", "e", "r", " ", "3">>
S_Paper3Display == <<"P", "a", "p", "e", "r", " ", "3", " ", "-", " ", "S", "t", "a", "t", "i", "s", "t", "i", "c", "s", " ", "&", " ", "M", "e", "c", "h", "a", "n", "i", "c", "s">>
S_Mechanics == <<"M", "e", "c", "h", "a", "n", "i", "c", "s">>
S_Statistics == <<"S", "t", "a", "t", "i", "s", "t", "i", "c", "s">>
S_pdf == <<".", "p", "d", "f">>
S_MS == <<"M", "S">>
S_QP == <<"Q", "P">>
MonthNames == <<<<"J", "a", "n", "u", "a", "r", "y">>, <<"F", "e", "b", "r", "u", "a", "r", "y">>, <<"M", "a", "r", "c", "h">>,
    <<"A", "p", "r", "i", "l">>, <<"M", "a", "y">>, <<"J", "u", "n", "e">>, <<"J", "u", "l", "y">>,
    <<"A", "u", "g", "u", "s", "t">>, <<"S", "e", "p", "t", "e", "m", "b", "e", "r">>, <<"O", "c", "t", "o", "b", "e", "r">>,
    <<"N", "o", "v", "e", "m", "b", "e", "r">>, <<"D", "e", "c", "e", "m", "b", "e", "r">>>>

(***************************************************************************)
(* CONFIGS["edexcel_alevel"]["paper_sections"] of main.py.  A section      *)
(* without the key has display_name = None; a section without subtypes   *)
(* has the empty list ("subtypes" in section then iterates over nothing).  *)
(***************************************************************************)
CONFIGS ==
    << [name |-> S_Paper1, identifier |-> "paper1",
        display_name |-> None, subtypes |-> <<>>],
       [name |-> S_Paper2, identifier |-> "paper2",
        display_name |-> None, subtypes |-> <<>>],
       [name |-> S_Paper3, identifier |-> "paper1",
        display_name |-> S_Paper3Display,
        subtypes |-> <<S_Mechanics, S_Statistics>>] >>


(***************************************************************************)
(* The source page: the sequence of sibling elements that holds the        *)
(* section headings.  An element is a heading (h3, h4), a div, a           *)
(* horizontal rule or a paragraph.  anchor is the id of an <a> inside the  *)
(* element ("" for none), text the element's text (for a div, the text of  *)
(* its first h5/h6, None when it has none), links the <a href> of a div.   *)
(***************************************************************************)
Heading(kind, anchor, text) ==
    [kind |-> kind, anchor |-> anchor, text |-> text, links |-> <<>>]
Div(text, lks) == [kind |-> "div", anchor |-> "", text |-> text, links |-> lks]
Rule == [kind |-> "hr", anchor |-> "", text |-> <<>>, links |-> <<>>]
Para(anchor) == [kind |-> "p", anchor |-> anchor, text |-> <<>>, links |-> <<>>]
Link(href, text) == [href |-> href, text |-> text]

HeadingKinds == {"h1", "h2", "h3", "h4", "h5", "h6"}

T_QuestionPapers == <<"Q", "u", "e", "s", "t", "i", "o", "n", " ", "P", "a", "p", "e", "r", "s">>
T_MarkSchemes == <<"M", "a", "r", "k", " ", "S", "c", "h", "e", "m", "e", "s">>

\* Links of the pages: an absolute .pdf URL, a relative .pdf URL, a link
\* without a year, a URL that does not end in .pdf (the file name is then made
\* from the anchor text), and a second URL with the file name of the first.
LinkA == Link(<<"h", "t", "t", "p", ":", "/", "/", "h", "/", "a", ".", "p", "d", "f">>, <<"J", "u", "n", "e", " ", "2", "0", "1", "9", " ", "Q", "P">>)
LinkB == Link(<<"m", "/", "b", ".", "p", "d", "f">>, <<"2", "0", "2", "1", " ", "(", "M", "e", "c", "h", ")", " ", "M", "S">>)
LinkC == Link(<<"h", "t", "t", "p", ":", "/", "/", "h", "/", "c", ".", "p", "d", "f">>, <<"S", "p", "e", "c", "i", "m", "e", "n", " ", "2", "0", " ", "Q", "P">>)
LinkD == Link(<<"h", "t", "t", "p", ":", "/", "/", "h", "/", "g", "e", "t", "?", "f", "=", "d">>, <<" ", "O", "c", "t", " ", "2", "0", "2", "0", ":", " ", "M", "S", " ">>)
LinkE == Link(<<"h", "t", "t", "p", ":", "/", "/", "g", "/", "x", "/", "a", ".", "p", "d", "f">>, <<"2", "0", "1", "8", " ", "Q", "P">>)

PageCatalog ==
    << \* a page with the three sections, each under its own heading
       << Heading("h4", "paper1", S_Paper1), Div(T_QuestionPapers, <<LinkC, LinkA>>),
          Rule,
          Heading("h4", "paper2", S_Paper2), Div(T_MarkSchemes, <<LinkD>>),
          Heading("h4", "", S_Paper3Display), Div(T_MarkSchemes, <<LinkB>>) >>,
       \* the same link twice in a section, and no heading for Paper 3
       << Heading("h4", "paper1", S_Paper1), Div(T_QuestionPapers, <<LinkA, LinkA>>) >>,
       \* two links with the same file name in two sections
       << Heading("h4", "paper1", S_Paper1), Div(T_QuestionPapers, <<LinkA>>),
          Heading("h4", "paper2", S_Paper2), Div(T_QuestionPapers, <<LinkE>>),
          Para("") >>,
       \* the anchor of Paper 1 sits in an h3 heading
       << Heading("h3", "paper1", S_Paper1), Div(T_QuestionPapers, <<LinkA>>) >>,
       \* Paper 2, with two dated links, comes before Paper 1, and the heading
       \* of Paper 3 has no div after it
       << Heading("h4", "paper2", S_Paper2), Div(T_MarkSchemes, <<LinkD, LinkB>>),
          Heading("h4", "paper1", S_Paper1), Div(T_QuestionPapers, <<LinkA>>),
          Heading("h4", "", S_Paper3Display) >> >>

(***************************************************************************)
(* Locating a section on the page (main.py, scrape_pmt_papers).            *)
(***************************************************************************)
\* soup.find('a', id=identifier): the first element holding that anchor, 0 for none.
FindAnchor(pg, identifier) ==
    LET hits == {i \in 1..Len(pg) : pg[i].anchor = identifier}
    IN  IF hits = {} THEN 0 ELSE Min(hits)

\* section_anchor.find_parent(['h1', ..., 'h6']): 0 when the anchor is in no heading.
FindParentHeading(pg, a) == IF pg[a].kind \in HeadingKinds THEN a ELSE 0

\* The Paper 3 scan: from the anchor's heading on, the first h4 whose text
\* contains "Paper 3"; the anchor's heading itself when there is none.
\* all_h4s.index(section_heading) raises ValueError when the heading is no h4:
\* the result is then -1.
Paper3Heading(pg, h) ==
    IF pg[h].kind # "h4" THEN -1
    ELSE LET hits == {i \in h..Len(pg) :
                        pg[i].kind = "h4" /\ Contains(pg[i].text, S_Paper3)}
         IN  IF hits = {} THEN h ELSE Min(hits)

\* section_heading.find_next_sibling('div'): 0 for none.
NextSiblingDiv(pg, h) ==
    LET hits == {i \in (h + 1)..Len(pg) : pg[i].kind = "div"}
    IN  IF hits = {} THEN 0 ELSE Min(hits)

\* The content type of a div from its first h5/h6.
ContentTypeOf(el) ==
    IF el.text = None THEN None
    ELSE IF Contains(el.text, <<"Q", "u", "e", "s", "t", "i", "o", "n">>) THEN S_QP
    ELSE IF Contains(el.text, <<"M", "a", "r", "k">>) \/ Contains(el.text, S_MS) THEN S_MS
    ELSE None

\* Mutant: the links of a div are taken last first.
ElementLinks_LastFirst(el) ==
    IF el.kind = "div" /\ ContentTypeOf(el) # None
    THEN [k \in 1..Len(el.links) |->
            [href |-> el.links[Len(el.links) + 1 - k].href,
             text |-> el.links[Len(el.links) + 1 - k].text,
             content_type |-> ContentTypeOf(el)]]
    ELSE <<>>

\* The links of one element of the walk.
ElementLinks(el) ==
    IF el.kind = "div" /\ ContentTypeOf(el) # None
    THEN [k \in 1..Len(el.links) |->
            [href |-> el.links[k].href, text |-> el.links[k].text,
             content_type |-> ContentTypeOf(el)]]
    ELSE <<>>

\* The while loop: from the container on, until an hr or a heading.
RECURSIVE CollectLinks(_, _)
CollectLinks(pg, i) ==
    IF i > Len(pg) \/ pg[i].kind = "hr" \/ pg[i].kind \in HeadingKinds
    THEN <<>>
    ELSE ElementLinks(pg[i]) \o CollectLinks(pg, i + 1)

\* The heading a section's links are read under: 0 when the section is
\* skipped, -1 when the scan raises.
SectionHeading(pg, section) ==
    LET a == FindAnchor(pg, section.identifier)
        h == IF a = 0 THEN 0 ELSE FindParentHeading(pg, a)
    IN  IF h = 0 THEN 0
        ELSE IF section.display_name # None /\ Contains(section.display_name, S_Paper3)
             THEN Paper3Heading(pg, h)
             ELSE h

\* status: "ok" with the links, "skip" (anchor, heading or container not
\* found: logged, continue), "raise" (ValueError out of the function).
ResolveSection(pg, section) ==
    LET h == SectionHeading(pg, section)
        c == IF h > 0 THEN NextSiblingDiv(pg, h) ELSE 0
    IN  IF h = -1 THEN [status |-> "raise", links |-> <<>>]
        ELSE IF h = 0 \/ c = 0 THEN [status |-> "skip", links |-> <<>>]
        ELSE [status |-> "ok", links |-> CollectLinks(pg, c)]

(***************************************************************************)
(* Metadata of a link (main.py, lines 366-401 and 424-433).                *)
(***************************************************************************)
\* re.search(r'20(\d{2})', link_text): the leftmost match, None for none.
YearPositions(text) ==
    {i \in 1..(Len(text) - 3) :
        /\ text[i] = "2" /\ text[i + 1] = "0"
        /\ text[i + 2] \in Digits /\ text[i + 3] \in Digits}

\* Mutant: the pattern '20..' in place of '20\d{2}'.
ExtractYear_AnyTwoChars(text) ==
    LET pos == {i \in 1..(Len(text) - 3) : text[i] = "2" /\ text[i + 1] = "0"}
    IN  IF pos = {} THEN None
        ELSE <<"2", "0", text[Min(pos) + 2], text[Min(pos) + 3]>>

ExtractYear(text) ==
    IF YearPositions(text) = {} THEN None
    ELSE LET i == Min(YearPositions(text))
         IN  <<"2", "0", text[i + 2], text[i + 3]>>

\* re.search of the twelve month names, re.IGNORECASE, then .capitalize().
\* The alternatives that match at position i of the lower-cased text.
MonthAt(lowered, i) == {m \in 1..12 : MatchAt(lowered, Lower(MonthNames[m]), i)}

\* Mutant: the match is recorded as it is written in the text.
ExtractMonth_AsWritten(text) ==
    LET lowered == Lower(text)
        pos == {i \in 1..Len(text) : MonthAt(lowered, i) # {}}
    IN  IF pos = {} THEN None
        ELSE LET i == Min(pos)
                 m == Min(MonthAt(lowered, i))
             IN  SubSeq(text, i, i + Len(MonthNames[m]) - 1)

ExtractMonth(text) ==
    LET lowered == Lower(text)
        pos == {i \in 1..Len(text) : MonthAt(lowered, i) # {}}
    IN  IF pos = {} THEN None
        ELSE LET i == Min(pos)
                 m == Min(MonthAt(lowered, i))
             IN  Capitalize(SubSeq(text, i, i + Len(MonthNames[m]) - 1))

\* subtype.lower() in text.lower() or f"({subtype[:4].lower()})" in text.lower()
SubtypeMatches(subtype, text) ==
    \/ Contains(Lower(text), Lower(subtype))
    \/ Contains(Lower(text), <<"(">> \o Lower(SubSeq(subtype, 1, 4)) \o <<")">>)

\* Mutant: the loop has no break, the last subtype that matches is kept.
ExtractSubtype_NoBreak(section, text) ==
    IF section.subtypes = <<>> THEN None
    ELSE LET hits == {k \in 1..Len(section.subtypes) :
                        SubtypeMatches(section.subtypes[k], text)}
         IN  IF hits = {} THEN None ELSE section.subtypes[Max(hits)]

\* The loop over section["subtypes"] with its break.
ExtractSubtype(section, text) ==
    IF section.subtypes = <<>> THEN None
    ELSE LET hits == {k \in 1..Len(section.subtypes) :
                        SubtypeMatches(section.subtypes[k], text)}
         IN  IF hits = {} THEN None ELSE section.subtypes[Min(hits)]

\* Lines 424-433: the subtype used for the folder and recorded.
FinalSubtype(section, text) ==
    LET st == ExtractSubtype(section, text)
    IN  IF Contains(section.name, S_Paper3) /\ st # None
        THEN IF Contains(text, <<"(", "M", "e", "c", "h", ")">>) \/ Contains(text, <<"(", "M", "e", "c", "h", "a", "n", "i", "c", "s", ")">>)
             THEN S_Mechanics
             ELSE IF Contains(text, <<"(", "S", "t", "a", "t", "s", ")">>) \/ Contains(text, <<"(", "S", "t", "a", "t", "i", "s", "t", "i", "c", "s", ")">>)
                  THEN S_Statistics
                  ELSE st
        ELSE st

\* exam_board and level are config_key.split('_')[0] and [1] for
\* "edexcel_alevel".
MetadataOf(link, section) ==
    [exam_board |-> S_edexcel, level |-> S_alevel, paper_type |-> section.name,
     content_type |-> link.content_type, year |-> ExtractYear(link.text),
     month |-> ExtractMonth(link.text), subtype |-> FinalSubtype(section, link.text)]

(***************************************************************************)
(* File name and destination (main.py, lines 366-367 and 403-444).         *)
(***************************************************************************)
\* href if href.startswith('http') else urljoin(config['base_url'], href),
\* for an href that is a relative path below the page.
FullUrl(href) == IF MatchAt(href, <<"h", "t", "t", "p">>, 1) THEN href ELSE <<"h", "t", "t", "p", "s", ":", "/", "/", "w", "w", "w", ".", "p", "h", "y", "s", "i", "c", "s", "a", "n", "d", "m", "a", "t", "h", "s", "t", "u", "t", "o", "r", ".", "c", "o", "m", "/", "m", "a", "t", "h", "s", "-", "r", "e", "v", "i", "s", "i", "o", "n", "/", "a", "-", "l", "e", "v", "e", "l", "-", "e", "d", "e", "x", "c", "e", "l", "/", "p", "a", "p", "e", "r", "s", "/">> \o href

FileNameOf(link) ==
    LET filename == Basename(FullUrl(link.href))
    IN  IF Len(filename) >= 4 /\ MatchAt(filename, S_pdf, Len(filename) - 3) THEN filename
        ELSE Sanitize(Strip(link.text) \o S_pdf)

ContentFolder(content_type) ==
    IF content_type = S_QP THEN <<"q", "u", "e", "s", "t", "i", "o", "n", "_", "p", "a", "p", "e", "r", "s">> ELSE <<"m", "a", "r", "k", "_", "s", "c", "h", "e", "m", "e", "s">>

\* os.path.join(*folder_components, filename) below base_path, as the
\* sequence of its components.
SavePathOf(link, section) ==
    LET md == MetadataOf(link, section)
        head == <<Capitalize(md.exam_board), Upper(md.level),
                  SpacesToUnderscores(md.paper_type)>>
        sub == IF Contains(md.paper_type, S_Paper3) /\ md.subtype # None
               THEN <<md.subtype>> ELSE <<>>
    IN  head \o sub \o <<ContentFolder(md.content_type), FileNameOf(link)>>


(***************************************************************************)
(* What scrape_pmt_papers derives from the page for each section: the      *)
(* outcome of locating it and, for each of its links, the metadata, the    *)
(* file name and the destination.  These depend on the page alone.         *)
(***************************************************************************)
Classified(link, section) ==
    [href |-> link.href, text |-> link.text, content_type |-> link.content_type,
     metadata |-> MetadataOf(link, section),
     filename |-> FileNameOf(link),
     save_path |-> SavePathOf(link, section)]

SectionTable ==
    [p \in DOMAIN PageCatalog |->
        [s \in DOMAIN CONFIGS |->
            LET r == ResolveSection(PageCatalog[p], CONFIGS[s])
            IN  [status |-> r.status,
                 links |-> [k \in 1..Len(r.links) |-> Classified(r.links[k], CONFIGS[s])]]]]

(***************************************************************************)
(* scrapers.py: the board profiles of config.py, determine_paper_number    *)
(* and extract_metadata.                                                   *)
(***************************************************************************)
S_component_dash == <<"c", "o", "m", "p", "o", "n", "e", "n", "t", "-">>
S_Paper_dash == <<"P", "a", "p", "e", "r", "-">>
S_paper_ == <<"p", "a", "p", "e", "r", " ">>
S_statistics == <<"s", "t", "a", "t", "i", "s", "t", "i", "c", "s">>
S_stats == <<"s", "t", "a", "t", "s">>
S_mechanics == <<"m", "e", "c", "h", "a", "n", "i", "c", "s">>
S_mech == <<"m", "e", "c", "h">>
S_pdf_param == <<"?", "p", "d", "f", "=">>
S_November == <<"N", "o", "v", "e", "m", "b", "e", "r">>
S_Nov == <<"N", "o", "v">>

\* The keys of CONFIGS in config.py.
Boards == {"ocr_alevel", "ocr_mei_alevel", "aqa_alevel", "edexcel_alevel"}

\* exam_board and level of a key (extract_metadata, create_folder_structure).
BoardOf(config_key) ==
    CASE config_key = "ocr_mei_alevel" -> <<"o", "c", "r", "-", "m", "e", "i">>
      [] config_key = "ocr_alevel" -> <<"o", "c", "r">>
      [] config_key = "aqa_alevel" -> <<"a", "q", "a">>
      [] config_key = "edexcel_alevel" -> S_edexcel

LevelOf(config_key) == S_alevel

\* The paper folders utils.create_folder_structure makes for a board: each
\* profile of config.py has the sections 1, 2 and 3.
SectionPaperNumbers == {S_paper_ \o <<"1">>, S_paper_ \o <<"2">>, S_paper_ \o <<"3">>}

\* The digits that follow position i (the greedy \d+).
RECURSIVE DigitRun(_, _)
DigitRun(s, i) ==
    IF i <= Len(s) /\ s[i] \in Digits THEN <<s[i]>> \o DigitRun(s, i + 1) ELSE <<>>

\* re.search(prefix + r'(\d+)', s): the group of the leftmost match, None for none.
SearchNumberAfter(s, prefix) ==
    LET pos == {i \in 1..Len(s) :
                  MatchAt(s, prefix, i) /\ DigitRun(s, i + Len(prefix)) # <<>>}
    IN  IF pos = {} THEN None ELSE DigitRun(s, Min(pos) + Len(prefix))

Numbered(number) ==
    [paper_number |-> S_paper_ \o number, paper_display_name |-> <<"P", "a", "p", "e", "r", " ">> \o number]

NoPaper == [paper_number |-> None, paper_display_name |-> None]

\* Mutant: the URL is read before the text.
DeterminePaperNumber_UrlFirst(href, link_text, config_key) ==
    LET url == IF config_key = "ocr_alevel"
               THEN SearchNumberAfter(Lower(href), S_component_dash)
               ELSE SearchNumberAfter(href, S_Paper_dash)
        component == SearchNumberAfter(link_text, <<"C", "o", "m", "p", "o", "n", "e", "n", "t", " ">>)
    IN  IF url # None THEN Numbered(url)
        ELSE IF component # None /\ config_key \in {"ocr_alevel", "ocr_mei_alevel"}
             THEN Numbered(component)
             ELSE NoPaper

\* determine_paper_number(href, link_text, config_key)
DeterminePaperNumber(href, link_text, config_key) ==
    LET low == Lower(href)
        component == SearchNumberAfter(link_text, <<"C", "o", "m", "p", "o", "n", "e", "n", "t", " ">>)
    IN  CASE config_key = "ocr_alevel" ->
               IF component # None THEN Numbered(component)
               ELSE IF SearchNumberAfter(low, S_component_dash) # None
                    THEN Numbered(SearchNumberAfter(low, S_component_dash))
               ELSE IF /\ Contains(low, <<"p", "u", "r", "e", "-", "m", "a", "t", "h", "e", "m", "a", "t", "i", "c", "s">>)
                       /\ ~Contains(low, S_statistics)
                       /\ ~Contains(low, S_mechanics)
                    THEN Numbered(<<"1">>)
               ELSE IF Contains(low, S_statistics) \/ Contains(low, S_stats)
                    THEN Numbered(<<"2">>)
               ELSE IF Contains(low, S_mechanics) \/ Contains(low, S_mech)
                    THEN Numbered(<<"3">>)
               ELSE NoPaper
          [] config_key = "ocr_mei_alevel" ->
               IF component # None THEN Numbered(component)
               ELSE IF SearchNumberAfter(href, S_Paper_dash) # None
                    THEN Numbered(SearchNumberAfter(href, S_Paper_dash))
               ELSE IF \/ Contains(low, S_mechanics) \/ Contains(low, S_mech)
                       \/ Contains(low, <<"c", "o", "m", "p", "o", "n", "e", "n", "t", "-", "1">>)
                    THEN Numbered(<<"1">>)
               ELSE IF \/ Contains(low, S_statistics) \/ Contains(low, S_stats)
                       \/ Contains(low, <<"c", "o", "m", "p", "o", "n", "e", "n", "t", "-", "2">>)
                    THEN Numbered(<<"2">>)
               ELSE IF \/ Contains(low, <<"c", "o", "m", "p", "r", "e", "h", "e", "n", "s", "i", "o", "n">>) \/ Contains(low, <<"c", "o", "m", "p">>)
                       \/ Contains(low, <<"c", "o", "m", "p", "o", "n", "e", "n", "t", "-", "3">>)
                    THEN Numbered(<<"3">>)
               ELSE NoPaper
          [] OTHER ->
               \* aqa_alevel, edexcel_alevel: group(0).lower().replace('-', ' ')
               IF SearchNumberAfter(href, S_Paper_dash) # None
               THEN Numbered(SearchNumberAfter(href, S_Paper_dash))
               ELSE NoPaper

\* re.search(r'(June|October|January|November|Nov)', link_text), "Nov" made "November".
UnifiedMonthNames == <<<<"J", "u", "n", "e">>, <<"O", "c", "t", "o", "b", "e", "r">>, <<"J", "a", "n", "u", "a", "r", "y">>, S_November, S_Nov>>

\* Mutant: 'Nov' is recorded as it is.
UnifiedMonth_NovKept(text) ==
    LET at(i) == {m \in 1..5 : MatchAt(text, UnifiedMonthNames[m], i)}
        pos == {i \in 1..Len(text) : at(i) # {}}
    IN  IF pos = {} THEN None ELSE UnifiedMonthNames[Min(at(Min(pos)))]

UnifiedMonth(text) ==
    LET at(i) == {m \in 1..5 : MatchAt(text, UnifiedMonthNames[m], i)}
        pos == {i \in 1..Len(text) : at(i) # {}}
    IN  IF pos = {} THEN None
        ELSE LET month == UnifiedMonthNames[Min(at(Min(pos)))]
             IN  IF month = S_Nov THEN S_November ELSE month

\* The subtype of extract_metadata: Edexcel Paper 3 only.
UnifiedSubtype(link_text, config_key, paper_number) ==
    IF config_key = "edexcel_alevel" /\ Contains(paper_number, <<"p", "a", "p", "e", "r", " ", "3">>)
    THEN IF Contains(link_text, <<"M", "e", "c", "h">>) \/ Contains(Lower(link_text), S_mech)
         THEN S_Mechanics
         ELSE IF Contains(link_text, <<"S", "t", "a", "t">>) \/ Contains(Lower(link_text), <<"s", "t", "a", "t">>)
              THEN S_Statistics
              ELSE None
    ELSE None

\* extract_metadata(href, link_text, config_key, paper_number, paper_display_name)
ExtractMetadata(href, link_text, config_key, paper_number, paper_display_name) ==
    [paper_type |-> paper_display_name,
     year |-> ExtractYear(link_text),
     month |-> UnifiedMonth(link_text),
     subtype |-> UnifiedSubtype(link_text, config_key, paper_number),
     content_type |-> IF Contains(link_text, S_QP) THEN S_QP
                      ELSE IF Contains(link_text, S_MS) THEN S_MS ELSE None,
     exam_board |-> BoardOf(config_key),
     level |-> LevelOf(config_key)]

(***************************************************************************)
(* scrapers.py, scrape_papers: what is derived from a link of the page.    *)
(***************************************************************************)
\* The filter over soup.find_all('a', href=True), lines 174-183.
IsPaperLink(link, config_key) ==
    /\ Contains(link.text, S_QP) \/ Contains(link.text, S_MS)
    /\ config_key = "aqa_alevel" =>
          Contains(link.href, <<"P", "a", "p", "e", "r">>) \/ Contains(Lower(link.href), <<"p", "a", "p", "e", "r">>)

RECURSIVE PaperLinks(_, _)
PaperLinks(pg, config_key) ==
    IF pg = <<>> THEN <<>>
    ELSE (IF IsPaperLink(Head(pg), config_key)
          THEN <<[href |-> Head(pg).href, text |-> Strip(Head(pg).text)]>>
          ELSE <<>>) \o PaperLinks(Tail(pg), config_key)

\* urllib.parse.unquote, for the escapes %2F, %3A, %20 and %2D.
RECURSIVE Unquote(_)
Unquote(s) ==
    IF s = <<>> THEN <<>>
    ELSE IF Len(s) >= 3 /\ s[1] = "%" /\ SubSeq(s, 2, 3) = <<"2", "F">>
         THEN <<"/">> \o Unquote(SubSeq(s, 4, Len(s)))
    ELSE IF Len(s) >= 3 /\ s[1] = "%" /\ SubSeq(s, 2, 3) = <<"3", "A">>
         THEN <<":">> \o Unquote(SubSeq(s, 4, Len(s)))
    ELSE IF Len(s) >= 3 /\ s[1] = "%" /\ SubSeq(s, 2, 3) = <<"2", "0">>
         THEN <<" ">> \o Unquote(SubSeq(s, 4, Len(s)))
    ELSE IF Len(s) >= 3 /\ s[1] = "%" /\ SubSeq(s, 2, 3) = <<"2", "D">>
         THEN <<"-">> \o Unquote(SubSeq(s, 4, Len(s)))
    ELSE <<s[1]>> \o Unquote(Tail(s))

\* href.split("?pdf=")[1]: what lies between the first separator and the
\* next one (or the end); None when there is no separator (IndexError).
SplitPdfParam(href) ==
    LET pos == {i \in 1..Len(href) : MatchAt(href, S_pdf_param, i)}
    IN  IF pos = {} THEN None
        ELSE LET from == Min(pos) + Len(S_pdf_param)
                 later == {i \in pos : i >= from}
             IN  SubSeq(href, from, IF later = {} THEN Len(href) ELSE Min(later) - 1)

\* Lines 193-198: the href the link is downloaded from; None when the split
\* raises IndexError.
ActualHref(href) ==
    IF Contains(href, <<"p", "d", "f", "-", "p", "a", "g", "e", "s">>)
    THEN IF SplitPdfParam(href) = None THEN None ELSE Unquote(SplitPdfParam(href))
    ELSE href

\* Lines 200-237 for one link: the outcome "raise" (IndexError), "skip"
\* (no paper number, or no content type) or "ok" with the metadata, the
\* file name and the save path (below base_path).
UnifiedClassified(link, config_key) ==
    LET href == ActualHref(link.href)
        paper == DeterminePaperNumber(href, link.text, config_key)
        content_type == IF Contains(link.text, S_QP) THEN <<"q", "p">>
                        ELSE IF Contains(link.text, S_MS) THEN <<"m", "s">> ELSE None
        md == ExtractMetadata(href, link.text, config_key,
                              paper.paper_number, paper.paper_display_name)
        filename == Basename(href)
    IN  IF href = None THEN [outcome |-> "raise"]
        ELSE IF paper.paper_number = None THEN [outcome |-> "skip"]
        ELSE IF content_type = None THEN [outcome |-> "skip"]
        ELSE [outcome |-> "ok",
              metadata |-> [md EXCEPT !.content_type = Upper(content_type)],
              filename |-> filename,
              folder_exists |-> paper.paper_number \in SectionPaperNumbers,
              save_path |-> <<md.level, md.exam_board, paper.paper_number,
                              content_type, filename>>]

\* The pages of the boards: for each key of CONFIGS, the <a href> elements
\* of the page at its base_url.
U_LinkP1 == Link(<<"h", "t", "t", "p", ":", "/", "/", "h", "/", "P", "a", "p", "e", "r", "-", "1", "/", "j", "1", "9", ".", "p", "d", "f">>, <<" ", "J", "u", "n", "e", " ", "2", "0", "1", "9", " ", "Q", "P", " ">>)
U_LinkC2 == Link(<<"h", "t", "t", "p", ":", "/", "/", "h", "/", "x", "/", "c", "2", ".", "p", "d", "f">>, <<"C", "o", "m", "p", "o", "n", "e", "n", "t", " ", "2", " ", "Q", "P", " ", "2", "0", "1", "8">>)

SiteCatalog ==
    << [b \in Boards |->
          CASE b = "ocr_alevel" ->
                 << U_LinkC2,
                    \* a redirect page that carries the file in ?pdf=
                    Link(<<"h", "t", "t", "p", ":", "/", "/", "h", "/", "p", "d", "f", "-", "p", "a", "g", "e", "s", "/", "?", "p", "d", "f", "=", "h", "t", "t", "p", "%", "3", "A", "%", "2", "F", "%", "2", "F", "h", "%", "2", "F", "s", "t", "a", "t", "s", "%", "2", "F", "s", ".", "p", "d", "f">>, <<"2", "0", "2", "1", " ", "M", "S">>) >>
            [] b = "ocr_mei_alevel" ->
                 << \* a file whose address names no paper
                    Link(<<"h", "t", "t", "p", ":", "/", "/", "h", "/", "m", "i", "s", "c", "/", "m", ".", "p", "d", "f">>, <<"2", "0", "1", "7", " ", "Q", "P">>),
                    U_LinkC2,
                    \* a redirect page without ?pdf=
                    Link(<<"h", "t", "t", "p", ":", "/", "/", "h", "/", "p", "d", "f", "-", "p", "a", "g", "e", "s", "/", "x">>, <<"2", "0", "1", "6", " ", "Q", "P">>) >>
            [] b = "aqa_alevel" ->
                 << \* a link that is no file
                    Link(<<"h", "t", "t", "p", ":", "/", "/", "h", "/", "P", "a", "p", "e", "r", "-", "1", "/">>, <<"H", "o", "m", "e">>),
                    U_LinkP1 >>
            [] b = "edexcel_alevel" ->
                 << U_LinkP1,
                    Link(<<"h", "t", "t", "p", ":", "/", "/", "h", "/", "P", "a", "p", "e", "r", "-", "3", "/", "n", "2", "0", ".", "p", "d", "f">>, <<"N", "o", "v", " ", "2", "0", "2", "0", " ", "(", "M", "e", "c", "h", ")", " ", "M", "S">>) >>] >>

UnifiedTable ==
    [p \in DOMAIN SiteCatalog |->
        [b \in Boards |->
            LET plinks == PaperLinks(SiteCatalog[p][b], b)
            IN  [k \in 1..Len(plinks) |-> UnifiedClassified(plinks[k], b)]]]

(***************************************************************************)
(* The scrapers the unified one combines: scrape_pmt_papers of             *)
(* ocr_scraper.py, aqa_scraper.py and edexcel_scraper.py, for one link.    *)
(***************************************************************************)
\* The filter over soup.find_all('a', href=True).
LegacyIsPaperLink(link, config_key) ==
    /\ Contains(link.text, S_QP) \/ Contains(link.text, S_MS)
    /\ config_key = "aqa_alevel" =>
          Contains(link.href, <<"P", "a", "p", "e", "r">>) \/ Contains(Lower(link.href), <<"p", "a", "p", "e", "r">>)
    /\ config_key = "edexcel_alevel" => Contains(link.href, <<"P", "a", "p", "e", "r">>)

\* The paper number: ocr_scraper.py reads the component from the text, then
\* from the URL, then from the subject in the URL; the two others read
\* Paper-N from the URL.  None when the link is skipped.
LegacyPaperNumber(href, link_text, config_key) ==
    LET low == Lower(href)
    IN  IF config_key = "ocr_alevel"
        THEN IF SearchNumberAfter(link_text, <<"C", "o", "m", "p", "o", "n", "e", "n", "t", " ">>) # None
             THEN SearchNumberAfter(link_text, <<"C", "o", "m", "p", "o", "n", "e", "n", "t", " ">>)
             ELSE IF SearchNumberAfter(low, S_component_dash) # None
                  THEN SearchNumberAfter(low, S_component_dash)
             ELSE IF /\ Contains(low, <<"p", "u", "r", "e", "-", "m", "a", "t", "h", "e", "m", "a", "t", "i", "c", "s">>)
                     /\ ~Contains(low, S_statistics)
                     /\ ~Contains(low, S_mechanics)
                  THEN <<"1">>
             ELSE IF Contains(low, S_statistics) \/ Contains(low, S_stats)
                  THEN <<"2">>
             ELSE IF Contains(low, S_mechanics) \/ Contains(low, S_mech)
                  THEN <<"3">>
             ELSE None
        ELSE SearchNumberAfter(href, S_Paper_dash)

\* The month: ocr_scraper.py knows 'Nov' and makes it 'November', the two
\* others know the four full names only.
LegacyMonth(link_text, config_key) ==
    LET known == IF config_key = "ocr_alevel" THEN 5 ELSE 4
        at(i) == {m \in 1..known : MatchAt(link_text, UnifiedMonthNames[m], i)}
        pos == {i \in 1..Len(link_text) : at(i) # {}}
    IN  IF pos = {} THEN None
        ELSE LET month == UnifiedMonthNames[Min(at(Min(pos)))]
             IN  IF month = S_Nov THEN S_November ELSE month

\* The subtype: edexcel_scraper.py alone sets one, from '(Mech)' or '(Stats)'.
LegacySubtype(link_text, config_key) ==
    IF config_key # "edexcel_alevel" THEN None
    ELSE IF Contains(link_text, <<"(", "M", "e", "c", "h", ")">>) THEN S_Mechanics
    ELSE IF Contains(link_text, <<"(", "S", "t", "a", "t", "s", ")">>) THEN S_Statistics
    ELSE None

\* One link of paper_links: "raise", "skip" or "ok" as in UnifiedClassified.
\* edexcel_scraper.py does not follow the redirect pages.
LegacyClassified(link, config_key) ==
    LET href == IF config_key = "edexcel_alevel" THEN link.href ELSE ActualHref(link.href)
        number == LegacyPaperNumber(href, link.text, config_key)
        content_type == IF Contains(link.text, S_QP) THEN <<"q", "p">>
                        ELSE IF Contains(link.text, S_MS) THEN <<"m", "s">> ELSE None
    IN  IF href = None THEN [outcome |-> "raise"]
        ELSE IF number = None THEN [outcome |-> "skip"]
        ELSE IF content_type = None THEN [outcome |-> "skip"]
        ELSE [outcome |-> "ok",
              metadata |-> [exam_board |-> BoardOf(config_key),
                            level |-> LevelOf(config_key),
                            paper_type |-> <<"P", "a", "p", "e", "r", " ">> \o number,
                            content_type |-> Upper(content_type),
                            year |-> ExtractYear(link.text),
                            month |-> LegacyMonth(link.text, config_key),
                            subtype |-> LegacySubtype(link.text, config_key)],
              filename |-> Basename(href),
              save_path |-> <<LevelOf(config_key), BoardOf(config_key),
                              S_paper_ \o number, content_type, Basename(href)>>]

(***************************************************************************)
(* Files: what a transfer can leave at a path, validation and hashing.     *)
(***************************************************************************)
\* A body the server delivers: a valid PDF, or one PyPDF2 rejects (an error
\* page, a PDF without pages).  "part" is a file cut short by a failed stream.
Bodies == {"pdf", "junk"}

\* validate_pdf: True for a PDF with at least one page; False for one with
\* no page and for a file PyPDF2 cannot parse (the exception is caught).
ValidatePdf(content) == content = "pdf"

\* hashlib.md5 of the content, as an injective digest.
Md5(content) == <<"md5", content>>

\* calculate_file_hash: the digest, "" when reading the file raises.
CalculateFileHash(content, readable) == IF readable THEN Md5(content) ELSE <<>>

\* default of download_file_with_progress(session, url, save_path, retries=3)
Retries == 3

(***************************************************************************)
(* The ledger (tracking CSV).  A row is written by csv.writer, which       *)
(* writes None as the empty field; download_date is left out.              *)
(***************************************************************************)
CsvField(v) == IF v = None THEN <<>> ELSE v

LedgerRow(md, filename, file_path, file_hash, validated) ==
    [filename |-> filename, exam_board |-> md.exam_board, level |-> md.level,
     paper_type |-> md.paper_type, subtype |-> CsvField(md.subtype),
     content_type |-> md.content_type, year |-> md.year,
     month |-> CsvField(md.month), file_path |-> file_path,
     file_hash |-> file_hash, validated |-> IF validated THEN "True" ELSE "False"]

\* The ledger file is "absent", "empty" (of size zero), "ledger" (a header
\* with the rows after it) or "headerless" (rows appended to a file that had
\* no header).

\* Mutant: a file of size zero counts as a ledger.
HasContent_AnyFile(file) == file # "absent"

\* os.path.isfile(csv_path) and os.path.getsize(csv_path) > 0
HasContent(file) == file \in {"ledger", "headerless"}

\* The file after initialize_tracking_csv.
InitializedFile(file, overwrite) ==
    IF HasContent(file) /\ ~overwrite THEN file ELSE "ledger"

\* The file after add_to_tracking_csv: open(csv_path, 'a') makes the file.
AppendedFile(file) == IF HasContent(file) THEN file ELSE "headerless"

\* Mutant: an existing file is kept whatever overwrite says.
InitializeTrackingCsv_NeverRewrites(exists, rows, overwrite) == rows

\* Mutant: the file is rewritten whenever it exists.
InitializeTrackingCsv_AlwaysRewrites(exists, rows, overwrite) == <<>>

\* initialize_tracking_csv: the rows of the file afterwards.  exists is
\* "the file is there and is not empty".
InitializeTrackingCsv(exists, rows, overwrite) ==
    IF exists /\ ~overwrite THEN rows ELSE <<>>

\* add_to_tracking_csv: open(csv_path, 'a') and one writerow.
AddToTrackingCsv(rows, row) == Append(rows, row)

\* Mutant: the first row is taken for the header and left out.
GetDownloadedFiles_SkipsFirstRow(rows, n) == {rows[i].filename : i \in 2..n}

\* get_downloaded_files: the filenames of the rows read; n rows are read
\* before the reader raises (all of them when it does not).
GetDownloadedFiles(rows, n) == {rows[i].filename : i \in 1..n}

\* Mutant: the set is emptied when the reader raises.
KnownFilenames_EmptyOnError(file, rows, n) ==
    IF file = "ledger" /\ n = Len(rows) THEN GetDownloadedFiles(rows, n) ELSE {}

\* get_downloaded_files on a file: the empty set when the file is absent or
\* empty; for rows without a header csv.DictReader takes the first row for
\* the header, so row['filename'] raises KeyError at the next row and the
\* set is still empty.
KnownFilenames(file, rows, n) ==
    IF file = "ledger" THEN GetDownloadedFiles(rows, n) ELSE {}

Filenames(rows) == {rows[i].filename : i \in 1..Len(rows)}

IsPrefix(s, t) == Len(s) <= Len(t) /\ SubSeq(t, 1, Len(s)) = s

\* The sleeps of the download: time.sleep(random.uniform(min_delay, max_delay))
\* before download_file_with_progress, time.sleep(wait_time) after a failed
\* attempt.
NoSleep == <<>>
RandomDelay == <<"uniform">>

(***************************************************************************)
(* State.                                                                  *)
(***************************************************************************)
VARIABLES
    page,                 \* index of the source page in PageCatalog
    csvFile,              \* the ledger file: absent, empty, ledger, headerless
    ledger,               \* the rows of the ledger file, after the header
    disk,                 \* the output tree: path -> content
    pc,                   \* position of the run
    runs,                 \* runs started so far
    resume,               \* arguments of the current run
    validate_files,
    downloaded_files,     \* the set read by get_downloaded_files
    sectionIdx,           \* loop over config["paper_sections"]
    linkIdx,              \* loop over links
    successful_downloads,
    attempt,              \* loop of download_file_with_progress
    download_success,
    lastLog,              \* what the last step logged
    lastReturn,           \* result of the last finished run
    prevReturn,           \* result of the run before the current one
    ledgerAtStart,        \* the rows of the ledger file when the run started
    readFailed,           \* get_downloaded_files hit a read error
    rowsRead,             \* rows get_downloaded_files read before it ended
    call,                 \* the ledger function called last, outside a run
    cli,                  \* position of math_paper_scraper.main
    request,              \* its arguments: --board and --dry-run
    boards,               \* the boards it has still to scrape
    total_downloads,      \* the sum of the counts scrape_papers returned to it
    sampled,              \* a link or a page given to the derivations on their own
    derived,              \* what they derived from it
    transferred,          \* save paths the current run made a transfer to
    slept,                \* the sleep made since the last transfer attempt
    faults,               \* environment faults so far
    config_key,           \* arguments of the current run of scrape_papers
    dry_run,
    downloads_count

\* State of scrapers.scrape_papers alone.
unifiedVars == <<config_key, dry_run, downloads_count>>

\* State of math_paper_scraper.main alone.
cliVars == <<cli, request, boards, total_downloads>>

\* State of the derivations applied on their own.
deriveVars == <<sampled, derived>>

\* State of main.scrape_pmt_papers alone, and of the derivations.
mainVars == <<resume, validate_files, downloaded_files, sectionIdx,
              successful_downloads, download_success, prevReturn, readFailed,
              rowsRead, call, slept, deriveVars>>

\* Set when a run of main.scrape_pmt_papers starts.
runVars == <<page, csvFile, runs, resume, validate_files, downloaded_files,
             prevReturn, ledgerAtStart, readFailed, rowsRead, call, unifiedVars,
             cliVars, deriveVars>>

vars == <<runVars, ledger, disk, pc, sectionIdx, linkIdx, successful_downloads,
          attempt, download_success, lastLog, lastReturn, transferred, slept, faults>>

\* The links of the current section, as collected from the page.
links == SectionTable[page][sectionIdx].links
CurLink == links[linkIdx]
CurMetadata == CurLink.metadata
CurFilename == CurLink.filename
CurSavePath == CurLink.save_path

WriteFile(path, content) ==
    [p \in DOMAIN disk \cup {path} |-> IF p = path THEN content ELSE disk[p]]

\* The environment may fail (a failed download, a body that is no PDF, a
\* file that cannot be hashed, a ledger that cannot be read, a failed page
\* fetch) MaxFaults times in all.
Fault(k) == /\ faults + k <= MaxFaults
            /\ faults' = faults + k

Init ==
    /\ page \in DOMAIN PageCatalog
    /\ csvFile \in {"absent", "empty"}
    /\ ledger = <<>>
    /\ disk = <<>>
    /\ pc = "idle"
    /\ runs = 0
    /\ resume = TRUE
    /\ validate_files = TRUE
    /\ downloaded_files = {}
    /\ sectionIdx = 1
    /\ linkIdx = 1
    /\ successful_downloads = 0
    /\ attempt = 0
    /\ download_success = FALSE
    /\ lastLog = "none"
    /\ lastReturn = "none"
    /\ prevReturn = "none"
    /\ ledgerAtStart = <<>>
    /\ readFailed = FALSE
    /\ rowsRead = 0
    /\ call = "none"
    /\ cli = "off"
    /\ request = [board |-> <<>>, dry_run |-> FALSE]
    /\ boards = <<>>
    /\ total_downloads = 0
    /\ sampled = [kind |-> "none"]
    /\ derived = [kind |-> "none"]
    /\ transferred = {}
    /\ slept = NoSleep
    /\ faults = 0
    /\ config_key = "edexcel_alevel"
    /\ dry_run = FALSE
    /\ downloads_count = 0

(***************************************************************************)
(* scrape_pmt_papers, lines 268-292: the ledger is initialised and read,   *)
(* then the page is fetched.  n is the number of rows get_downloaded_files *)
(* reads before the reader raises.                                         *)
(***************************************************************************)
StartRun(rs, vf, n, fetched) ==
    LET rows == InitializeTrackingCsv(HasContent(csvFile), ledger, ~rs)
        file == InitializedFile(csvFile, ~rs)
    IN  /\ pc = "idle"
        /\ runs < MaxRuns
        /\ n \in 0..Len(rows)
        /\ ~rs => n = Len(rows)
        /\ Fault((IF n < Len(rows) THEN 1 ELSE 0) + (IF fetched THEN 0 ELSE 1))
        /\ runs' = runs + 1
        /\ resume' = rs
        /\ validate_files' = vf
        /\ ledgerAtStart' = ledger
        /\ prevReturn' = lastReturn
        /\ csvFile' = file
        /\ ledger' = rows
        /\ downloaded_files' = IF rs THEN KnownFilenames(file, rows, n) ELSE {}
        /\ readFailed' = (n < Len(rows))
        /\ rowsRead' = n
        /\ transferred' = {}
        /\ slept' = NoSleep
        /\ sectionIdx' = 1
        /\ linkIdx' = 1
        /\ successful_downloads' = 0
        /\ attempt' = 0
        /\ download_success' = FALSE
        /\ IF fetched
           THEN /\ pc' = "section"
                /\ lastLog' = "fetching"
                /\ lastReturn' = "none"
           ELSE /\ pc' = "idle"
                /\ lastLog' = "fetch_failed"
                /\ lastReturn' = "False"
        /\ UNCHANGED <<page, disk, call, unifiedVars, cliVars, deriveVars>>

(***************************************************************************)
(* The loop over the sections, lines 295-361.                              *)
(***************************************************************************)
\* All sections done: return True.
FinishRun ==
    /\ pc = "section"
    /\ sectionIdx > Len(CONFIGS)
    /\ pc' = "idle"
    /\ lastReturn' = "True"
    /\ lastLog' = "complete"
    /\ UNCHANGED <<runVars, slept, ledger, disk, sectionIdx, linkIdx, successful_downloads,
                   attempt, download_success, transferred, faults>>

\* The anchor, its heading or the container is not found: warning, continue.
SkipSection ==
    /\ pc = "section"
    /\ sectionIdx <= Len(CONFIGS)
    /\ SectionTable[page][sectionIdx].status = "skip"
    /\ sectionIdx' = sectionIdx + 1
    /\ lastLog' = "section_not_found"
    /\ UNCHANGED <<runVars, slept, ledger, disk, pc, linkIdx, successful_downloads,
                   attempt, download_success, lastReturn, transferred, faults>>

\* all_h4s.index raises ValueError, which nothing catches.
SectionRaises ==
    /\ pc = "section"
    /\ sectionIdx <= Len(CONFIGS)
    /\ SectionTable[page][sectionIdx].status = "raise"
    /\ pc' = "idle"
    /\ lastReturn' = "raised"
    /\ lastLog' = "exception"
    /\ UNCHANGED <<runVars, slept, ledger, disk, sectionIdx, linkIdx, successful_downloads,
                   attempt, download_success, transferred, faults>>

\* The links of the section are collected.
EnterSection ==
    /\ pc = "section"
    /\ sectionIdx <= Len(CONFIGS)
    /\ SectionTable[page][sectionIdx].status = "ok"
    /\ linkIdx' = 1
    /\ successful_downloads' = 0
    /\ pc' = "link"
    /\ lastLog' = "found_links"
    /\ UNCHANGED <<runVars, slept, ledger, disk, sectionIdx, attempt, download_success,
                   lastReturn, transferred, faults>>

(***************************************************************************)
(* The loop over the links of a section, lines 363-444.                    *)
(***************************************************************************)
\* if not metadata['year']
MissingYear(md) == md.year = None

\* Mutant: the resume flag is tested the wrong way round.
AlreadyDownloaded_FlagInverted(rs, filename, known) == ~rs /\ filename \in known

\* if resume and filename in downloaded_files
AlreadyDownloaded(rs, filename, known) == rs /\ filename \in known

EndSection ==
    /\ pc = "link"
    /\ linkIdx > Len(links)
    /\ sectionIdx' = sectionIdx + 1
    /\ pc' = "section"
    /\ lastLog' = "section_done"
    /\ UNCHANGED <<runVars, slept, ledger, disk, linkIdx, successful_downloads, attempt,
                   download_success, lastReturn, transferred, faults>>

SkipMissingYear ==
    /\ pc = "link"
    /\ linkIdx <= Len(links)
    /\ MissingYear(CurMetadata)
    /\ linkIdx' = linkIdx + 1
    /\ lastLog' = "missing_year"
    /\ UNCHANGED <<runVars, slept, ledger, disk, pc, sectionIdx, successful_downloads,
                   attempt, download_success, lastReturn, transferred, faults>>

SkipDownloaded ==
    /\ pc = "link"
    /\ linkIdx <= Len(links)
    /\ ~MissingYear(CurMetadata)
    /\ AlreadyDownloaded(resume, CurFilename, downloaded_files)
    /\ linkIdx' = linkIdx + 1
    /\ lastLog' = "already_downloaded"
    /\ UNCHANGED <<runVars, slept, ledger, disk, pc, sectionIdx, successful_downloads,
                   attempt, download_success, lastReturn, transferred, faults>>

\* The folder is made, the delay is slept and download_file_with_progress
\* is entered.
BeginDownload ==
    /\ pc = "link"
    /\ linkIdx <= Len(links)
    /\ ~MissingYear(CurMetadata)
    /\ ~AlreadyDownloaded(resume, CurFilename, downloaded_files)
    /\ attempt' = 0
    /\ slept' = RandomDelay
    /\ pc' = "download"
    /\ lastLog' = "delay"
    /\ UNCHANGED <<runVars, ledger, disk, sectionIdx, linkIdx, successful_downloads,
                   download_success, lastReturn, transferred, faults>>

(***************************************************************************)
(* download_file_with_progress, lines 234-266.                             *)
(***************************************************************************)
\* Mutant: the wait grows by two seconds with each attempt.
WaitTime_Linear(failed) == 2 * failed

\* wait_time = 2 ** attempt
WaitTime(failed) == 2 ^ failed

\* Mutant: the last attempt is taken to be the one after the budget.
LastAttempt_OffByOne(failed) == failed = Retries

\* if attempt == retries - 1
LastAttempt(failed) == failed = Retries - 1

\* An attempt that streams the whole body into save_path: return True.
AttemptSucceeds(body) ==
    /\ pc = "download"
    /\ attempt < Retries
    /\ Fault(IF body = "pdf" THEN 0 ELSE 1)
    /\ disk' = WriteFile(CurSavePath, body)
    /\ transferred' = transferred \cup {CurSavePath}
    /\ download_success' = TRUE
    /\ slept' = NoSleep
    /\ pc' = "downloaded"
    /\ lastLog' = "transferred"
    /\ UNCHANGED <<runVars, ledger, sectionIdx, linkIdx, successful_downloads,
                   attempt, lastReturn>>

\* An attempt that raises RequestException: before the file is opened
\* (partial = FALSE) or while the body is streamed into it (partial = TRUE).
\* After the last attempt the function returns False and the link is given up.
\* The failed attempts of one download count as one fault.
AttemptFails(partial) ==
    /\ pc = "download"
    /\ attempt < Retries
    /\ Fault(IF attempt = 0 THEN 1 ELSE 0)
    /\ disk' = IF partial THEN WriteFile(CurSavePath, "part") ELSE disk
    /\ transferred' = transferred \cup {CurSavePath}
    /\ attempt' = attempt + 1
    /\ slept' = <<"backoff", WaitTime(attempt)>>
    /\ IF LastAttempt(attempt)
       THEN /\ download_success' = FALSE
            /\ linkIdx' = linkIdx + 1
            /\ pc' = "link"
            /\ lastLog' = "download_failed"
       ELSE /\ lastLog' = "retrying"
            /\ UNCHANGED <<download_success, linkIdx, pc>>
    /\ UNCHANGED <<runVars, ledger, sectionIdx, successful_downloads, lastReturn>>

\* An attempt that raises something other than RequestException (open() or
\* write() fail with OSError): the error leaves download_file_with_progress
\* and the except clause of scrape_pmt_papers logs it; the loop goes on with
\* the next link.  The file may have been opened (partial = TRUE).
AttemptRaises(partial) ==
    /\ pc = "download"
    /\ attempt < Retries
    /\ Fault(IF attempt = 0 THEN 1 ELSE 0)
    /\ disk' = IF partial THEN WriteFile(CurSavePath, "part") ELSE disk
    /\ transferred' = transferred \cup {CurSavePath}
    /\ slept' = NoSleep
    /\ linkIdx' = linkIdx + 1
    /\ pc' = "link"
    /\ lastLog' = "error_processing"
    /\ UNCHANGED <<runVars, ledger, sectionIdx, successful_downloads, attempt,
                   download_success, lastReturn>>

(***************************************************************************)
(* After a successful download, lines 454-473.                             *)
(***************************************************************************)
\* validated = validate_pdf(save_path) when validate_files, else False.
Validated(vf, content) == vf /\ ValidatePdf(content)

\* Mutant: an invalid file is logged but the link is not given up.
Rejected_NoContinue(vf, content) == FALSE

\* if validate_files: ... if not validated: os.remove(save_path); continue
Rejected(vf, content) == vf /\ ~ValidatePdf(content)

\* Mutant: the rejected file is left in place.
AfterValidation_KeepsFile(path, rejected) == disk

\* The output tree after the validation step: the rejected file is removed.
AfterValidation(path, rejected) ==
    IF rejected THEN [p \in DOMAIN disk \ {path} |-> disk[p]] ELSE disk

RejectInvalid ==
    /\ pc = "downloaded"
    /\ Rejected(validate_files, disk[CurSavePath])
    /\ disk' = AfterValidation(CurSavePath, TRUE)
    /\ linkIdx' = linkIdx + 1
    /\ pc' = "link"
    /\ lastLog' = "invalid_pdf"
    /\ UNCHANGED <<runVars, slept, ledger, sectionIdx, successful_downloads, attempt,
                   download_success, lastReturn, transferred, faults>>

\* The hash is calculated and the entry appended.
Record(hashable) ==
    /\ pc = "downloaded"
    /\ ~Rejected(validate_files, disk[CurSavePath])
    /\ Fault(IF hashable THEN 0 ELSE 1)
    /\ ledger' = AddToTrackingCsv(ledger,
                    LedgerRow(CurMetadata, CurFilename, CurSavePath,
                              CalculateFileHash(disk[CurSavePath], hashable),
                              Validated(validate_files, disk[CurSavePath])))
    /\ successful_downloads' = successful_downloads + 1
    /\ linkIdx' = linkIdx + 1
    /\ pc' = "link"
    /\ lastLog' = "recorded"
    /\ UNCHANGED <<runVars, slept, disk, sectionIdx, attempt, download_success,
                   lastReturn, transferred>>

Next ==
    \/ \E rs \in BOOLEAN, vf \in BOOLEAN, n \in 0..Len(ledger), fetched \in BOOLEAN :
          StartRun(rs, vf, n, fetched)
    \/ FinishRun
    \/ SkipSection
    \/ SectionRaises
    \/ EnterSection
    \/ EndSection
    \/ SkipMissingYear
    \/ SkipDownloaded
    \/ BeginDownload
    \/ \E body \in Bodies : AttemptSucceeds(body)
    \/ \E partial \in BOOLEAN : AttemptFails(partial)
    \/ \E partial \in BOOLEAN : AttemptRaises(partial)
    \/ RejectInvalid
    \/ \E hashable \in BOOLEAN : Record(hashable)

Spec == Init /\ [][Next]_vars

(***************************************************************************)
(* scrapers.py, scrape_papers(base_path, csv_path, config_key, dry_run).   *)
(* The ledger of utils.py has no file_hash and no validated column.        *)
(***************************************************************************)
\* utils.add_to_tracking_csv: the row written.
UnifiedRow(md, filename, file_path) ==
    [filename |-> filename, exam_board |-> md.exam_board, level |-> md.level,
     paper_type |-> md.paper_type, subtype |-> CsvField(md.subtype),
     content_type |-> md.content_type, year |-> CsvField(md.year),
     month |-> CsvField(md.month), file_path |-> file_path]

\* The classified links of the current board's page.
paper_links == UnifiedTable[page][config_key]
UCur == paper_links[linkIdx]

\* Statuses of a response: 200, the 400 that is retried once, another status.
Statuses == {200, 400, 404}

InitUnified ==
    /\ Init
    /\ page \in DOMAIN SiteCatalog

\* Lines 157-185: folders, ledger, page fetch (requests.get may raise) and
\* the enumeration of the links.
U_Begin(board, dry, fetched) ==
    /\ pc = "idle"
    /\ Fault(IF fetched THEN 0 ELSE 1)
    /\ runs' = runs + 1
    /\ config_key' = board
    /\ dry_run' = dry
    /\ ledgerAtStart' = ledger
    /\ csvFile' = (IF csvFile = "absent" THEN "ledger" ELSE csvFile)
    /\ ledger' = (IF csvFile # "absent" THEN ledger ELSE <<>>)
    /\ transferred' = {}
    /\ linkIdx' = 1
    /\ downloads_count' = 0
    /\ attempt' = 0
    /\ IF fetched
       THEN /\ pc' = "u_link"
            /\ lastLog' = "fetching"
            /\ lastReturn' = "none"
       ELSE /\ pc' = "idle"
            /\ lastLog' = "exception"
            /\ lastReturn' = "raised"
    /\ UNCHANGED <<page, disk, mainVars>>

\* scrape_papers called on its own, for any board.
U_StartRun(board, dry, fetched) ==
    /\ runs < MaxRuns
    /\ U_Begin(board, dry, fetched)
    /\ UNCHANGED cliVars

\* return downloads_count
U_Return ==
    /\ pc = "u_link"
    /\ linkIdx > Len(paper_links)
    /\ pc' = "idle"
    /\ lastReturn' = "returned"
    /\ lastLog' = "complete"
    /\ UNCHANGED <<page, csvFile, runs, ledgerAtStart, unifiedVars, mainVars, cliVars,
                   ledger, disk, linkIdx, attempt, transferred, faults>>

\* href.split("?pdf=")[1] raises IndexError, which nothing in scrape_papers
\* catches.
U_LinkRaises ==
    /\ pc = "u_link"
    /\ linkIdx <= Len(paper_links)
    /\ UCur.outcome = "raise"
    /\ pc' = "idle"
    /\ lastReturn' = "raised"
    /\ lastLog' = "exception"
    /\ UNCHANGED <<page, csvFile, runs, ledgerAtStart, unifiedVars, mainVars, cliVars,
                   ledger, disk, linkIdx, attempt, transferred, faults>>

\* No paper number or no content type: continue.
U_SkipLink ==
    /\ pc = "u_link"
    /\ linkIdx <= Len(paper_links)
    /\ UCur.outcome = "skip"
    /\ linkIdx' = linkIdx + 1
    /\ lastLog' = "skipping"
    /\ UNCHANGED <<page, csvFile, runs, ledgerAtStart, unifiedVars, mainVars, cliVars,
                   ledger, disk, pc, attempt, lastReturn, transferred, faults>>

\* Mutant: the file is saved before dry_run is looked at.
U_DryRun_StillSaves ==
    /\ pc = "u_link"
    /\ linkIdx <= Len(paper_links)
    /\ UCur.outcome = "ok"
    /\ dry_run
    /\ disk' = WriteFile(UCur.save_path, "pdf")
    /\ transferred' = transferred \cup {UCur.save_path}
    /\ linkIdx' = linkIdx + 1
    /\ lastLog' = "dry_run"
    /\ UNCHANGED <<page, csvFile, runs, ledgerAtStart, unifiedVars, mainVars, cliVars,
                   ledger, pc, attempt, lastReturn, faults>>

\* if dry_run: ... continue
U_DryRun ==
    /\ pc = "u_link"
    /\ linkIdx <= Len(paper_links)
    /\ UCur.outcome = "ok"
    /\ dry_run
    /\ linkIdx' = linkIdx + 1
    /\ lastLog' = "dry_run"
    /\ UNCHANGED <<page, csvFile, runs, ledgerAtStart, unifiedVars, mainVars, cliVars,
                   ledger, disk, pc, attempt, lastReturn, transferred, faults>>

\* The next link is given up: nothing is written, nothing is recorded.
U_GiveUp(log) ==
    /\ linkIdx' = linkIdx + 1
    /\ attempt' = 0
    /\ lastLog' = log
    /\ UNCHANGED <<csvFile, ledger, disk, downloads_count>>

\* Lines 246-277: one requests.get of the download.  A first response of
\* status 400 is retried once; status 200 is saved and recorded; open()
\* raises when the folder of the paper number was not created.
U_Get(status, body) ==
    /\ pc = "u_link"
    /\ linkIdx <= Len(paper_links)
    /\ UCur.outcome = "ok"
    /\ ~dry_run
    /\ Fault(IF status = 200 /\ body = "pdf" THEN 0 ELSE IF attempt = 0 THEN 1 ELSE 0)
    /\ transferred' = transferred \cup {UCur.save_path}
    /\ IF status = 400 /\ attempt = 0
       THEN /\ attempt' = 1
            /\ lastLog' = "retrying"
            /\ UNCHANGED <<csvFile, ledger, disk, downloads_count, linkIdx>>
       ELSE IF status # 200
       THEN U_GiveUp("download_failed")
       ELSE IF ~UCur.folder_exists
       THEN U_GiveUp("exception")
       ELSE /\ disk' = WriteFile(UCur.save_path, body)
            /\ ledger' = AddToTrackingCsv(ledger,
                            UnifiedRow(UCur.metadata, UCur.filename, UCur.save_path))
            /\ csvFile' = AppendedFile(csvFile)
            /\ downloads_count' = downloads_count + 1
            /\ linkIdx' = linkIdx + 1
            /\ attempt' = 0
            /\ lastLog' = "recorded"
    /\ UNCHANGED <<page, runs, ledgerAtStart, config_key, dry_run,
                   mainVars, cliVars, pc, lastReturn>>

\* requests.get raises: the except clause logs and the loop goes on.
U_GetRaises ==
    /\ pc = "u_link"
    /\ linkIdx <= Len(paper_links)
    /\ UCur.outcome = "ok"
    /\ ~dry_run
    /\ Fault(IF attempt = 0 THEN 1 ELSE 0)
    /\ transferred' = transferred \cup {UCur.save_path}
    /\ U_GiveUp("exception")
    /\ UNCHANGED <<page, runs, ledgerAtStart, config_key, dry_run,
                   mainVars, cliVars, pc, lastReturn>>

NextUnified ==
    \/ \E board \in Boards, dry \in BOOLEAN, fetched \in BOOLEAN :
          U_StartRun(board, dry, fetched)
    \/ U_Return
    \/ U_LinkRaises
    \/ U_SkipLink
    \/ U_DryRun
    \/ \E status \in Statuses, body \in Bodies : U_Get(status, body)
    \/ U_GetRaises

SpecUnified == InitUnified /\ [][NextUnified]_vars

(***************************************************************************)
(* math_paper_scraper.py, main(): the boards are parsed from --board and   *)
(* validated, then scrape_papers is called for each board in turn.         *)
(***************************************************************************)
\* list(CONFIGS.keys()) of config.py, in the order of the dictionary.
BoardOrder == <<"ocr_alevel", "ocr_mei_alevel", "aqa_alevel", "edexcel_alevel">>

\* The text of each key.
KeyText ==
    [b \in Boards |->
        CASE b = "ocr_alevel" -> <<"o", "c", "r", "_", "a", "l", "e", "v", "e", "l">>
          [] b = "ocr_mei_alevel" -> <<"o", "c", "r", "_", "m", "e", "i", "_", "a", "l", "e", "v", "e", "l">>
          [] b = "aqa_alevel" -> <<"a", "q", "a", "_", "a", "l", "e", "v", "e", "l">>
          [] b = "edexcel_alevel" -> <<"e", "d", "e", "x", "c", "e", "l", "_", "a", "l", "e", "v", "e", "l">>]

\* Values of --board: the default, all in capitals, one board, a board and
\* an unknown one after it (with a blank), an unknown one first, two boards,
\* a board with a comma after it.
Requests ==
    { <<"a", "l", "l">>, <<"A", "L", "L">>, <<"a", "q", "a", "_", "a", "l", "e", "v", "e", "l">>,
      <<"a", "q", "a", "_", "a", "l", "e", "v", "e", "l", ",", " ", "b", "o", "g", "u", "s">>,
      <<"b", "o", "g", "u", "s", ",", "a", "q", "a", "_", "a", "l", "e", "v", "e", "l">>,
      <<"e", "d", "e", "x", "c", "e", "l", "_", "a", "l", "e", "v", "e", "l", ",", "o", "c", "r", "_", "a", "l", "e", "v", "e", "l">>,
      <<"a", "q", "a", "_", "a", "l", "e", "v", "e", "l", ",">> }

\* args.board.split(',')
RECURSIVE SplitCommas(_)
SplitCommas(s) ==
    LET commas == {i \in 1..Len(s) : s[i] = ","}
    IN  IF commas = {} THEN <<s>>
        ELSE <<SubSeq(s, 1, Min(commas) - 1)>>
                \o SplitCommas(SubSeq(s, Min(commas) + 1, Len(s)))

\* Lines 34-37: the boards to scrape.
ParseBoards(arg) ==
    IF Lower(arg) = <<"a", "l", "l">>
    THEN [k \in 1..Len(BoardOrder) |-> KeyText[BoardOrder[k]]]
    ELSE [k \in 1..Len(SplitCommas(arg)) |-> Strip(SplitCommas(arg)[k])]

\* board in CONFIGS
Registered(board) == \E b \in Boards : KeyText[b] = board

\* Mutant: the first board alone is validated.
UnknownBoards_FirstOnly(arg) ==
    IF Lower(arg) = <<"a", "l", "l">> THEN {}
    ELSE {k \in {1} : ~Registered(ParseBoards(arg)[k])}

\* Lines 38-42: the requested boards that are not in CONFIGS; none are
\* looked for when --board is 'all'.
UnknownBoards(arg) ==
    IF Lower(arg) = <<"a", "l", "l">> THEN {}
    ELSE {k \in 1..Len(ParseBoards(arg)) : ~Registered(ParseBoards(arg)[k])}

\* Lines 31-42: the arguments are parsed; an unknown board ends main.
Cli_Main(arg, dry) ==
    /\ cli = "off"
    /\ pc = "idle"
    /\ request' = [board |-> arg, dry_run |-> dry]
    /\ boards' = ParseBoards(arg)
    /\ total_downloads' = 0
    /\ IF UnknownBoards(arg) # {}
       THEN cli' = "done" /\ lastLog' = "unknown_board"
       ELSE cli' = "scraping" /\ lastLog' = "boards_parsed"
    /\ UNCHANGED <<page, csvFile, ledger, disk, pc, runs, linkIdx, attempt, lastReturn,
                   ledgerAtStart, transferred, faults, unifiedVars, mainVars>>

\* Lines 54-64: scrape_papers is called for the next board; what it raises
\* is caught and the loop goes on.  CONFIGS[board] at line 56 is outside
\* the try: a board that is not registered ends main with KeyError.
Cli_Scrape(fetched) ==
    /\ cli = "scraping"
    /\ pc = "idle"
    /\ boards # <<>>
    /\ boards' = Tail(boards)
    /\ UNCHANGED <<request, total_downloads>>
    /\ IF Registered(Head(boards))
       THEN /\ U_Begin(CHOOSE b \in Boards : KeyText[b] = Head(boards),
                       request.dry_run, fetched)
            /\ cli' = cli
       ELSE /\ cli' = "done"
            /\ lastLog' = "exception"
            /\ UNCHANGED <<page, csvFile, ledger, disk, pc, runs, linkIdx, attempt,
                           lastReturn, ledgerAtStart, transferred, faults,
                           unifiedVars, mainVars>>

\* Lines 66-70: every board was scraped.
Cli_Done ==
    /\ cli = "scraping"
    /\ pc = "idle"
    /\ boards = <<>>
    /\ cli' = "done"
    /\ lastLog' = "all_completed"
    /\ UNCHANGED <<page, csvFile, ledger, disk, pc, runs, linkIdx, attempt, lastReturn,
                   ledgerAtStart, transferred, faults, unifiedVars, mainVars,
                   request, boards, total_downloads>>

\* Lines 60-62: scrape_papers returns downloads_count and main adds it to
\* the total.
Cli_Return ==
    /\ cli = "scraping"
    /\ pc = "u_link"
    /\ linkIdx > Len(paper_links)
    /\ pc' = "idle"
    /\ lastReturn' = "returned"
    /\ lastLog' = "complete"
    /\ total_downloads' = total_downloads + downloads_count
    /\ UNCHANGED <<page, csvFile, runs, ledgerAtStart, unifiedVars, mainVars,
                   cli, request, boards,
                   ledger, disk, linkIdx, attempt, transferred, faults>>

NextCli ==
    \/ \E arg \in Requests, dry \in BOOLEAN : Cli_Main(arg, dry)
    \/ \E fetched \in BOOLEAN : Cli_Scrape(fetched)
    \/ Cli_Done
    \/ Cli_Return
    \/ U_LinkRaises
    \/ U_SkipLink
    \/ U_DryRun
    \/ \E status \in Statuses, body \in Bodies : U_Get(status, body)
    \/ U_GetRaises

SpecCli == InitUnified /\ [][NextCli]_vars

(***************************************************************************)
(* The ledger functions of main.py called one by one on a ledger file:     *)
(* initialize_tracking_csv, add_to_tracking_csv and get_downloaded_files.  *)
(***************************************************************************)
\* Rows a caller may add: those of the dated links of the first page.
SampleRows ==
    UNION { {LedgerRow(SectionTable[1][s].links[k].metadata,
                       SectionTable[1][s].links[k].filename,
                       SectionTable[1][s].links[k].save_path, Md5("pdf"), TRUE) :
                k \in {j \in DOMAIN SectionTable[1][s].links :
                          SectionTable[1][s].links[j].metadata.year # None}} :
            s \in DOMAIN CONFIGS }

\* What the ledger functions leave alone.
scrapeVars == <<page, disk, pc, runs, resume, validate_files, sectionIdx, linkIdx,
                successful_downloads, attempt, download_success, lastReturn,
                prevReturn, ledgerAtStart, transferred, slept, faults, unifiedVars,
                cliVars>>

\* No run was made; the ledger file is absent or of size zero.
InitLedger ==
    /\ Init
    /\ page = 1

\* initialize_tracking_csv(csv_path, overwrite)
L_Initialize(overwrite) ==
    /\ call' = (IF overwrite THEN "initialize_overwrite" ELSE "initialize")
    /\ csvFile' = InitializedFile(csvFile, overwrite)
    /\ ledger' = InitializeTrackingCsv(HasContent(csvFile), ledger, overwrite)
    /\ lastLog' = (IF HasContent(csvFile) /\ ~overwrite THEN "using_existing"
                   ELSE IF HasContent(csvFile) THEN "reinitialized" ELSE "created")
    /\ UNCHANGED <<scrapeVars, deriveVars, downloaded_files, readFailed, rowsRead>>

\* add_to_tracking_csv(csv_path, metadata, filename, file_path, file_hash, validated)
L_Add(row) ==
    /\ Len(ledger) < MaxRows
    /\ call' = "add"
    /\ csvFile' = AppendedFile(csvFile)
    /\ ledger' = AddToTrackingCsv(ledger, row)
    /\ lastLog' = "row_added"
    /\ UNCHANGED <<scrapeVars, deriveVars, downloaded_files, readFailed, rowsRead>>

\* get_downloaded_files(csv_path): n rows are read before the reader raises
\* (all of them when it does not); rows without a header make it raise at
\* the second row.  The function returns in each case.
L_GetDownloaded(n) ==
    /\ n \in 0..Len(ledger)
    /\ csvFile # "ledger" => n = 0
    /\ call' = "get_downloaded"
    /\ downloaded_files' = KnownFilenames(csvFile, ledger, n)
    /\ rowsRead' = n
    /\ readFailed' = IF csvFile = "headerless" THEN Len(ledger) > 1
                     ELSE n < Len(ledger)
    /\ lastLog' = (IF readFailed' THEN "read_error" ELSE "read")
    /\ UNCHANGED <<scrapeVars, deriveVars, csvFile, ledger>>

NextLedger ==
    \/ \E overwrite \in BOOLEAN : L_Initialize(overwrite)
    \/ \E row \in SampleRows : L_Add(row)
    \/ \E n \in 0..Len(ledger) : L_GetDownloaded(n)

SpecLedger == InitLedger /\ [][NextLedger]_vars

(***************************************************************************)
(* The derivations applied on their own to sample inputs: what              *)
(* scrape_pmt_papers of main.py derives from one link of a section.         *)
(***************************************************************************)
\* Anchor texts: a year, a month word and a subtype word.  The month words
\* are none, June in two letter cases, the abbreviation of November in two
\* letter cases, November in small letters and the abbreviation of October.
SampleTexts ==
    LET SampleMonths ==
            { <<>>,
              <<"J", "u", "n", "e">>,
              <<"J", "U", "N", "E">>,
              <<"N", "o", "v">>,
              <<"n", "o", "v">>,
              <<"n", "o", "v", "e", "m", "b", "e", "r">>,
              <<"O", "c", "t">> }
        SampleSubtypes ==
            { <<>>,
              <<"(", "M", "e", "c", "h", ")">>,
              <<"(", "S", "t", "a", "t", "s", ")">>,
              <<"(", "S", "t", "a", "t", "i", "s", "t", "i", "c", "s", ")">>,
              <<"(", "M", "e", "c", "h", "a", "n", "i", "c", "s", ")">>,
              <<"M", "e", "c", "h", "a", "n", "i", "c", "s">>,
              <<"s", "t", "a", "t", "i", "s", "t", "i", "c", "s">>,
              <<"(", "s", "t", "a", "t", ")">>,
              <<"M", "e", "c", "h", "a", "n", "i", "c", "s", " ", "(", "S", "t", "a", "t", "s", ")">>,
              <<"S", "t", "a", "t", "i", "s", "t", "i", "c", "s", " ", "a", "n", "d", " ", "M", "e", "c", "h", "a", "n", "i", "c", "s">> }
    IN  { <<"2", "0", "2", "1", " ">> \o m \o <<" ">> \o s :
              m \in SampleMonths, s \in SampleSubtypes }

\* Nothing was sampled yet; each derivation is applied to one sample.
InitDerive ==
    /\ Init
    /\ page = 1
    /\ csvFile = "absent"

\* Lines 365-444 for one link of section s whose div has content type ct.
DeriveLink(text, s, ct) ==
    /\ sampled.kind = "none"
    /\ sampled' = [kind |-> "link", href |-> LinkA.href, text |-> text,
                   section |-> s, content_type |-> ct]
    /\ derived' = [kind |-> "link",
                   link |-> Classified([href |-> LinkA.href, text |-> text,
                                        content_type |-> ct], CONFIGS[s])]
    /\ UNCHANGED <<scrapeVars, csvFile, ledger, downloaded_files, readFailed,
                   rowsRead, call, lastLog>>

\* Addresses of paper links: a folder that may name the component or the
\* paper, a folder that may name a subject, a file; and two redirect pages,
\* one that carries the address of the file and one that does not.
PaperHrefs ==
    { <<"h", "t", "t", "p", ":", "/", "/", "h", "/">> \o a \o b \o <<"x", ".", "p", "d", "f">> :
        a \in { <<>>,
             <<"c", "o", "m", "p", "o", "n", "e", "n", "t", "-", "3", "/">>,
             <<"P", "a", "p", "e", "r", "-", "3", "/">>,
             <<"P", "a", "p", "e", "r", "-", "1", "/">>,
             <<"p", "a", "p", "e", "r", "-", "1", "/">> },
        b \in { <<>>,
             <<"p", "u", "r", "e", "-", "m", "a", "t", "h", "e", "m", "a", "t", "i", "c", "s", "/">>,
             <<"s", "t", "a", "t", "s", "/">>,
             <<"m", "e", "c", "h", "a", "n", "i", "c", "s", "/">>,
             <<"c", "o", "m", "p", "/">> } }
    \cup { <<"h", "t", "t", "p", ":", "/", "/", "h", "/", "p", "d", "f", "-", "p", "a", "g", "e", "s", "/", "?", "p", "d", "f", "=", "h", "t", "t", "p", "%", "3", "A", "%", "2", "F", "%", "2", "F", "h", "%", "2", "F", "P", "a", "p", "e", "r", "-", "3", "%", "2", "F", "x", ".", "p", "d", "f">>,
           <<"h", "t", "t", "p", ":", "/", "/", "h", "/", "p", "d", "f", "-", "p", "a", "g", "e", "s", "/", "P", "a", "p", "e", "r", "-", "1", "/", "x">> }

\* Anchor texts of paper links: a component or none, a month or its
\* abbreviation, a year, a subtype word or none, the content type or none.
PaperTexts ==
    { c \o m \o <<" ", "2", "0", "1", "8", " ">> \o s \o k :
        c \in {<<>>, <<"C", "o", "m", "p", "o", "n", "e", "n", "t", " ", "2", " ">>},
        m \in {<<"J", "u", "n", "e">>, <<"N", "o", "v">>},
        s \in { <<>>,
                <<"(", "M", "e", "c", "h", ")", " ">>,
                <<"(", "S", "t", "a", "t", "s", ")", " ">>,
                <<"M", "e", "c", "h", "a", "n", "i", "c", "s", " ">> },
        k \in {S_QP, <<"n", "o", "t", "e", "s">>} }

\* One link of a board's page given to the unified scraper (scrapers.py,
\* lines 174-237) and to the scraper of the board it combines; there is none
\* for ocr_mei_alevel.
DerivePaper(href, text, board) ==
    LET link == [href |-> href, text |-> Strip(text)]
    IN  /\ sampled.kind = "none"
        /\ sampled' = [kind |-> "paper", href |-> href, text |-> text, board |-> board]
        /\ derived' =
              [kind |-> "paper",
               paper |-> IF ActualHref(href) = None THEN NoPaper
                         ELSE DeterminePaperNumber(ActualHref(href), link.text, board),
               unified |-> IF IsPaperLink(link, board)
                           THEN UnifiedClassified(link, board)
                           ELSE [outcome |-> "skip"],
               legacy |-> IF board = "ocr_mei_alevel" THEN [outcome |-> "none"]
                          ELSE IF LegacyIsPaperLink(link, board)
                               THEN LegacyClassified(link, board)
                               ELSE [outcome |-> "skip"]]
        /\ UNCHANGED <<scrapeVars, csvFile, ledger, downloaded_files, readFailed,
                       rowsRead, call, lastLog>>

\* The elements a sample page is made of: the headings of the sections, a
\* rule, a paragraph, two content divs with one link each.
SampleElements ==
    { Heading("h4", "paper1", S_Paper1), Heading("h4", "paper2", S_Paper2),
      Heading("h4", "", S_Paper3Display), Rule, Para(""),
      Div(T_QuestionPapers, <<LinkA>>), Div(T_MarkSchemes, <<LinkD>>) }

\* Lines 295-361 for one section of a page.
DerivePage(pg, s) ==
    /\ sampled.kind = "none"
    /\ sampled' = [kind |-> "page", elements |-> pg, section |-> s]
    /\ derived' = [kind |-> "page", section |-> ResolveSection(pg, CONFIGS[s])]
    /\ UNCHANGED <<scrapeVars, csvFile, ledger, downloaded_files, readFailed,
                   rowsRead, call, lastLog>>

NextDerive ==
    \/ \E k \in 1..MaxElements : \E pg \in [1..k -> SampleElements], s \in DOMAIN CONFIGS :
          DerivePage(pg, s)
    \/ \E text \in SampleTexts, s \in DOMAIN CONFIGS, ct \in {S_QP, S_MS} :
          DeriveLink(text, s, ct)
    \/ \E href \in PaperHrefs, text \in PaperTexts, board \in Boards :
          DerivePaper(href, text, board)

SpecDerive == InitDerive /\ [][NextDerive]_vars

(***************************************************************************)
(* Properties of main.scrape_pmt_papers.                                   *)
(***************************************************************************)
\* The file names of the links of the page that have a year, over the
\* sections that are located.
DatedFilenames(p) ==
    UNION { {SectionTable[p][s].links[k].filename :
                k \in {j \in DOMAIN SectionTable[p][s].links :
                          SectionTable[p][s].links[j].metadata.year # None}} :
            s \in DOMAIN CONFIGS }

\* A second run with resume has finished, after a run that finished too.
SecondResumeRunDone ==
    /\ pc = "idle"
    /\ runs >= 2
    /\ resume
    /\ lastReturn = "True"
    /\ prevReturn = "True"

LastRow == ledger[Len(ledger)]

\* The file names of the transfers of the current run.
TransferredFilenames == {path[Len(path)] : path \in transferred}

\* C1 as stated: after a second run with resume=True on the same page and
\* ledger, the ledger has exactly the entries it had after the first run.
C1_SecondRunSameLedger == SecondResumeRunDone => ledger = ledgerAtStart

\* C1 amended: when the ledger is read back without error, the second run
\* keeps every entry of the first run in place and appends entries only for
\* file names the first run did not record; when the first run recorded every
\* dated link of the page, the ledger is exactly the same.
C1_SecondRunKeepsRecorded ==
    (SecondResumeRunDone /\ ~readFailed) =>
        /\ IsPrefix(ledgerAtStart, ledger)
        /\ \A i \in (Len(ledgerAtStart) + 1)..Len(ledger) :
              ledger[i].filename \notin Filenames(ledgerAtStart)
        /\ DatedFilenames(page) \subseteq Filenames(ledgerAtStart) => ledger = ledgerAtStart

\* A second run found every dated link recorded and left the ledger as it was.
C1_Witness ==
    /\ SecondResumeRunDone
    /\ ~readFailed
    /\ Len(ledgerAtStart) > 0
    /\ DatedFilenames(page) \subseteq Filenames(ledgerAtStart)
    /\ ledger = ledgerAtStart

\* C3 as stated: a run makes no transfer for a file name that the ledger
\* file held when the run started.
C3_NoTransferOfKnown == TransferredFilenames \cap Filenames(ledgerAtStart) = {}

\* C3 amended: a run with resume=True that reads the ledger without error
\* makes no transfer for a file name that the ledger held when it started.
C3_ResumeNoTransferOfKnown ==
    (resume /\ ~readFailed) => TransferredFilenames \cap Filenames(ledgerAtStart) = {}

\* A link was skipped because its file name was in the ledger.
C3_Witness ==
    /\ lastLog = "already_downloaded"
    /\ ~readFailed
    /\ links[linkIdx - 1].filename \in Filenames(ledgerAtStart)

\* C4 as stated: no two entries of the ledger have the same file name.
C4_FilenameUnique ==
    \A i, j \in 1..Len(ledger) : ledger[i].filename = ledger[j].filename => i = j

\* C5 as stated: every entry is appended after a successful download and
\* records validated = True, whatever validate_files is.
C5_RecordedOnlyValidated ==
    [][Len(ledger') > Len(ledger) =>
          /\ download_success
          /\ ledger'[Len(ledger')].validated = "True"]_vars

\* C5 amended: every entry is appended after a successful download; with
\* validate_files=True the file has passed validation and the entry records
\* validated = True, with validate_files=False the file is not validated and
\* the entry records validated = False.
C5_RecordedAfterSuccess ==
    [][Len(ledger') > Len(ledger) =>
          /\ download_success
          /\ pc = "downloaded"
          /\ validate_files =>
                /\ ValidatePdf(disk[CurSavePath])
                /\ ledger'[Len(ledger')].validated = "True"
          /\ ~validate_files => ledger'[Len(ledger')].validated = "False"]_vars

\* An entry was appended for a validated file.
C5_Witness ==
    /\ lastLog = "recorded"
    /\ validate_files
    /\ LastRow.validated = "True"

\* C6: with validation enabled, a downloaded file that is no valid PDF is
\* rejected, and a rejected file is removed, no entry is appended, the
\* success counter stays and the loop goes on with the next link.
C6_InvalidFileDropped ==
    [][(pc = "downloaded" /\ validate_files) =>
          /\ disk[CurSavePath] # "pdf" => lastLog' = "invalid_pdf"
          /\ lastLog' = "invalid_pdf" =>
                /\ CurSavePath \notin DOMAIN disk'
                /\ ledger' = ledger
                /\ successful_downloads' = successful_downloads
                /\ pc' = "link"
                /\ sectionIdx' = sectionIdx
                /\ linkIdx' = linkIdx + 1]_vars

\* A file has just been rejected.
C6_Witness == lastLog = "invalid_pdf" /\ pc = "link" /\ validate_files

\* C7 as stated: no step of a run, whatever resume is, changes or removes
\* an entry the ledger holds.
C7_AppendOnlyAnyResume == [][IsPrefix(ledger, ledger')]_vars

\* C7 amended: no step of a run with resume=True changes or removes an entry
\* the ledger holds (a run with resume=False starts the ledger afresh).
C7_AppendOnlyWithResume == [][resume' => IsPrefix(ledger, ledger')]_vars

\* A run with resume=True appended to a ledger that held entries.
C7_Witness ==
    /\ resume
    /\ Len(ledgerAtStart) > 0
    /\ Len(ledger) > Len(ledgerAtStart)
    /\ IsPrefix(ledgerAtStart, ledger)

\* C8 as stated: when an entry is appended, a file is at its file_path and
\* the recorded hash is the hash of that file.
C8_HashMatchesFile ==
    [][Len(ledger') > Len(ledger) =>
          /\ ledger'[Len(ledger')].file_path \in DOMAIN disk'
          /\ ledger'[Len(ledger')].file_hash
                = Md5(disk'[ledger'[Len(ledger')].file_path])]_vars

\* C9 as stated: in every state, every entry of the ledger refers to a file
\* that is on disk.
C9_EntriesHaveFiles ==
    \A i \in 1..Len(ledger) : ledger[i].file_path \in DOMAIN disk

\* C10: a link whose text holds no '20' followed by two digits is skipped:
\* no transfer, no entry, and the loop goes on with the next link of the
\* section.
C10_NoYearSkipped ==
    [][(pc = "link" /\ linkIdx <= Len(links) /\ YearPositions(CurLink.text) = {}) =>
          /\ pc' = "link"
          /\ sectionIdx' = sectionIdx
          /\ linkIdx' = linkIdx + 1
          /\ ledger' = ledger
          /\ disk' = disk
          /\ transferred' = transferred]_vars

\* A link after a skipped link of the same section was recorded.
C10_Witness ==
    /\ lastLog = "recorded"
    /\ \E k \in 1..(linkIdx - 2) : YearPositions(links[k].text) = {}

(***************************************************************************)
(* Properties of scrapers.scrape_papers.                                   *)
(***************************************************************************)
FilePaths(rows) == {rows[i].file_path : i \in 1..Len(rows)}

\* C2 as stated: a run with dry_run=False makes no transfer to a destination
\* that the ledger held an entry for when the run started, and the ledger
\* never holds two entries for one destination.
C2_NoSecondDownload ==
    /\ ~dry_run => transferred \cap FilePaths(ledgerAtStart) = {}
    /\ \A i, j \in 1..Len(ledger) : ledger[i].file_path = ledger[j].file_path => i = j

(***************************************************************************)
(* Sections that cannot be located (main.scrape_pmt_papers).               *)
(***************************************************************************)
\* A section that cannot be located: no anchor, no heading around the
\* anchor, for Paper 3 no h4 heading from the anchor's heading on whose text
\* contains "Paper 3", or no div after the heading.
TargetHeadingMissing(pg, section) ==
    LET a == FindAnchor(pg, section.identifier)
        h == IF a = 0 THEN 0 ELSE FindParentHeading(pg, a)
    IN  /\ h # 0
        /\ section.display_name # None
        /\ Contains(section.display_name, S_Paper3)
        /\ {i \in h..Len(pg) : pg[i].kind = "h4" /\ Contains(pg[i].text, S_Paper3)} = {}

CannotLocate(pg, section) ==
    LET h == SectionHeading(pg, section)
    IN  \/ h <= 0
        \/ TargetHeadingMissing(pg, section)
        \/ NextSiblingDiv(pg, h) = 0

\* C11 as stated: a section that cannot be located is skipped: the run goes
\* on with the next section, nothing is transferred or recorded for it, and
\* the run does not end there.
C11_UnlocatedSectionSkipped ==
    [][(/\ pc = "section"
        /\ sectionIdx <= Len(CONFIGS)
        /\ CannotLocate(PageCatalog[page], CONFIGS[sectionIdx])) =>
          /\ pc' = "section"
          /\ sectionIdx' = sectionIdx + 1
          /\ ledger' = ledger
          /\ disk' = disk
          /\ lastReturn' = lastReturn]_vars

(***************************************************************************)
(* The two sections of the anchor 'paper1' (main.scrape_pmt_papers).       *)
(***************************************************************************)
\* The first h4 heading, from the heading of the anchor 'paper1' on, whose
\* text contains "Paper 3"; 0 when the page has none.
FirstPaper3Heading(pg) ==
    LET a == FindAnchor(pg, "paper1")
        h == IF a = 0 THEN 0 ELSE FindParentHeading(pg, a)
        hits == {i \in h..Len(pg) : i > 0 /\ pg[i].kind = "h4" /\ Contains(pg[i].text, S_Paper3)}
    IN  IF h = 0 \/ hits = {} THEN 0 ELSE Min(hits)

\* The links of a list, as pairs of href and text.
HrefsAndTexts(lks) == [k \in 1..Len(lks) |-> <<lks[k].href, lks[k].text>>]

\* C12 as stated: the links processed for Paper 3 are those under the first
\* heading, from the anchor's heading on, whose text contains "Paper 3", and
\* none of them is a link processed for Paper 1.
C12_Paper3OwnLinks ==
    (pc = "link" /\ CONFIGS[sectionIdx].name = S_Paper3) =>
        LET pg == PageCatalog[page]
            target == FirstPaper3Heading(pg)
            first == SectionTable[page][1]
        IN  /\ target # 0
            /\ NextSiblingDiv(pg, target) # 0
            /\ HrefsAndTexts(links)
                  = HrefsAndTexts(CollectLinks(pg, NextSiblingDiv(pg, target)))
            /\ \A k \in 1..Len(links), j \in 1..Len(first.links) :
                  <<links[k].href, links[k].text>>
                     # <<first.links[j].href, first.links[j].text>>

(***************************************************************************)
(* The retries and the delays of a download (main.py).                     *)
(***************************************************************************)
\* C13: a download makes at most Retries attempts: an attempt is made only
\* while fewer than Retries have failed, a success ends the download (the
\* next step leaves the link without another transfer), the download gives
\* up exactly when the attempt that fails is number Retries, and then no
\* entry is appended and the loop goes on with the next link.
C13_BoundedRetries ==
    [][/\ (attempt' > attempt \/ transferred' \ transferred # {}) => pc = "download"
       /\ pc = "download" =>
             /\ attempt < Retries
             /\ lastLog' = "transferred" =>
                   /\ download_success'
                   /\ pc' = "downloaded"
                   /\ attempt' = attempt
             /\ (lastLog' = "download_failed") <=> (attempt' = Retries)
             /\ lastLog' = "download_failed" =>
                   /\ ~download_success'
                   /\ ledger' = ledger
                   /\ pc' = "link"
                   /\ sectionIdx' = sectionIdx
                   /\ linkIdx' = linkIdx + 1
       /\ pc = "downloaded" =>
             /\ pc' = "link"
             /\ linkIdx' = linkIdx + 1
             /\ transferred' = transferred]_vars

\* A download was given up after Retries failed attempts.
C13_Witness ==
    /\ lastLog = "download_failed"
    /\ attempt = Retries
    /\ pc = "link"
    /\ ~download_success
    /\ links[linkIdx - 1].save_path \in transferred

C16_RewrittenOnlyIfAbsentOrOverwrite ==
    [][call' \in {"initialize", "initialize_overwrite"} =>
          IF csvFile = "absent" \/ call' = "initialize_overwrite"
          THEN csvFile' = "ledger" /\ ledger' = <<>>
          ELSE csvFile' = csvFile /\ ledger' = ledger]_vars

\* C16 amended: initialize_tracking_csv writes a ledger that holds the header
\* alone when no file exists, the file is empty or overwrite is true, and
\* leaves the file as it is when it has content and overwrite is false.
C16_RewrittenUnlessContentKept ==
    [][call' \in {"initialize", "initialize_overwrite"} =>
          IF csvFile \in {"absent", "empty"} \/ call' = "initialize_overwrite"
          THEN csvFile' = "ledger" /\ ledger' = <<>>
          ELSE csvFile' = csvFile /\ ledger' = ledger]_vars

\* A ledger with rows was initialised without overwrite and kept its rows.
C16_Witness ==
    /\ call = "initialize"
    /\ lastLog = "using_existing"
    /\ csvFile = "ledger"
    /\ Len(ledger) > 0

(***************************************************************************)
(* Links that cannot be classified, and dry runs (scrapers.scrape_papers). *)
(***************************************************************************)
\* C17 as stated: a link that cannot be classified (no paper number, no
\* content type, or a redirect href that holds no "?pdf=") is skipped: no
\* transfer, no entry, and the loop goes on with the next link.
C17_UnclassifiedLinkSkipped ==
    [][(pc = "u_link" /\ linkIdx <= Len(paper_links) /\ UCur.outcome # "ok") =>
          /\ pc' = "u_link"
          /\ linkIdx' = linkIdx + 1
          /\ ledger' = ledger
          /\ disk' = disk
          /\ transferred' = transferred]_vars

RequestedBoards == ParseBoards(request.board)

\* C19: when a requested board is not registered, main scrapes no board: no
\* run of scrape_papers is started, so no page is fetched, no transfer is
\* made, no file is written and the ledger file is not touched.
C19_UnknownBoardNothingScraped ==
    (/\ cli # "off"
     /\ \E k \in 1..Len(RequestedBoards) : ~Registered(RequestedBoards[k])) =>
        /\ cli = "done"
        /\ lastLog = "unknown_board"
        /\ runs = 0
        /\ pc = "idle"
        /\ transferred = {}
        /\ disk = <<>>
        /\ ledger = <<>>
        /\ csvFile \in {"absent", "empty"}

\* main ended on an unknown board that was listed after a registered one.
C19_Witness ==
    /\ cli = "done"
    /\ lastLog = "unknown_board"
    /\ Len(RequestedBoards) = 2
    /\ Registered(RequestedBoards[1])
    /\ ~Registered(RequestedBoards[2])
    /\ runs = 0

(***************************************************************************)
(* The order of the entries a run appends.                                 *)
(***************************************************************************)
\* The entries the current run of scrape_pmt_papers has appended: without
\* resume the ledger was rewritten at the start of the run.
AppendedRows ==
    IF resume THEN SubSeq(ledger, Len(ledgerAtStart) + 1, Len(ledger)) ELSE ledger

\* The file names of the links of a page, in the order of the document.
RECURSIVE PageFilenames(_)
PageFilenames(pg) ==
    IF pg = <<>> THEN <<>>
    ELSE (IF Head(pg).kind = "div"
          THEN [k \in 1..Len(Head(pg).links) |-> FileNameOf(Head(pg).links[k])]
          ELSE <<>>) \o PageFilenames(Tail(pg))

RECURSIVE IsSubsequence(_, _)
IsSubsequence(a, b) ==
    IF a = <<>> THEN TRUE
    ELSE IF b = <<>> THEN FALSE
    ELSE IF Head(a) = Head(b) THEN IsSubsequence(Tail(a), Tail(b))
    ELSE IsSubsequence(a, Tail(b))

\* The file names of the appended entries of one section, in ledger order.
RECURSIVE FilenamesOfSection(_, _)
FilenamesOfSection(rows, name) ==
    IF rows = <<>> THEN <<>>
    ELSE (IF Head(rows).paper_type = name THEN <<Head(rows).filename>> ELSE <<>>)
            \o FilenamesOfSection(Tail(rows), name)

\* The place of a section in the profile.
SectionIndex(name) == Min({s \in DOMAIN CONFIGS : CONFIGS[s].name = name})

\* C20 as stated: the entries a run appends are in the order of their links
\* on the page.
C20_RowsInPageOrder ==
    runs > 0 =>
        IsSubsequence([i \in 1..Len(AppendedRows) |-> AppendedRows[i].filename],
                      PageFilenames(PageCatalog[page]))

\* C20 amended: the entries a run appends are grouped by section, the
\* sections in the order of the profile, and the entries of one section are
\* in the order of their links on the page.
C20_RowsInProfileThenPageOrder ==
    runs > 0 =>
        /\ \A i, j \in 1..Len(AppendedRows) :
              i < j => SectionIndex(AppendedRows[i].paper_type)
                         <= SectionIndex(AppendedRows[j].paper_type)
        /\ \A s \in DOMAIN CONFIGS :
              IsSubsequence(FilenamesOfSection(AppendedRows, CONFIGS[s].name),
                            PageFilenames(PageCatalog[page]))

\* On the page where Paper 2 comes first, a run has appended the entry of
\* Paper 1 and then the two entries of Paper 2.
C20_Witness ==
    /\ runs > 0
    /\ FindAnchor(PageCatalog[page], "paper2") < FindAnchor(PageCatalog[page], "paper1")
    /\ Len(AppendedRows) = 3
    /\ AppendedRows[1].paper_type = S_Paper1
    /\ AppendedRows[2].paper_type = S_Paper2
    /\ AppendedRows[3].paper_type = S_Paper2
    /\ AppendedRows[2].filename # AppendedRows[3].filename

(***************************************************************************)
(* The counts of downloads.                                                *)
(***************************************************************************)
\* main has ended after the loop over the boards, in a run that is not dry.
\* The ledger was empty when main started.
MainCompleted == cli = "done" /\ lastLog = "all_completed" /\ ~request.dry_run

\* C21 as stated: the total main reports equals the number of entries
\* appended to the ledger during the invocation, also when the run of a
\* board ended with an exception.
C21_TotalEqualsAppended == MainCompleted => total_downloads = Len(ledger)

(***************************************************************************)
(* Properties of the metadata scrape_pmt_papers derives from a link.       *)
(***************************************************************************)
\* text occurs in the sampled anchor text, in any letter case.
OccursAnyCase(text) == Contains(Lower(sampled.text), Lower(text))

\* The declared subtypes of the sampled section whose full name or whose
\* parenthesized abbreviation of four letters occurs in the anchor text.
SubtypesOccurring ==
    {k \in 1..Len(CONFIGS[sampled.section].subtypes) :
        \/ OccursAnyCase(CONFIGS[sampled.section].subtypes[k])
        \/ OccursAnyCase(<<"(">> \o SubSeq(CONFIGS[sampled.section].subtypes[k], 1, 4)
                            \o <<")">>)}

\* The first of them in declared order, None when there is none.
FirstDeclaredSubtype ==
    IF SubtypesOccurring = {} THEN None
    ELSE CONFIGS[sampled.section].subtypes[Min(SubtypesOccurring)]

\* The folders of the save path between the section's folder and the
\* content folder.
SubtypeFolders ==
    SubSeq(derived.link.save_path, 4, Len(derived.link.save_path) - 2)

StatisticsInParentheses ==
    /\ Contains(CONFIGS[sampled.section].name, S_Paper3)
    /\ ~Contains(sampled.text, <<"(", "M", "e", "c", "h", ")">>)
    /\ ~Contains(sampled.text, <<"(", "M", "e", "c", "h", "a", "n", "i", "c", "s", ")">>)
    /\ \/ Contains(sampled.text, <<"(", "S", "t", "a", "t", "s", ")">>)
       \/ Contains(sampled.text, <<"(", "S", "t", "a", "t", "i", "s", "t", "i", "c", "s", ")">>)

CanonicalMonths == {MonthNames[m] : m \in 1..12}

\* C23 as stated: the month is absent or a canonical name, it is set when a
\* month name occurs in the text in any letter case, and 'Nov' gives
\* November.
C23_MonthWithAbbreviation ==
    sampled.kind = "link" =>
        /\ derived.link.metadata.month \in CanonicalMonths \cup {None}
        /\ (\E m \in 1..12 : OccursAnyCase(MonthNames[m])) =>
                derived.link.metadata.month # None
        /\ Contains(sampled.text, <<"N", "o", "v">>) =>
                derived.link.metadata.month = MonthNames[11]

\* C23 amended: the month is absent or a canonical name, and it is set
\* exactly when a full month name occurs in the text in any letter case;
\* an abbreviation alone leaves it absent.
C23_MonthOfFullNameOnly ==
    sampled.kind = "link" =>
        /\ derived.link.metadata.month \in CanonicalMonths \cup {None}
        /\ (\E m \in 1..12 : OccursAnyCase(MonthNames[m])) <=>
                derived.link.metadata.month # None
        /\ \A m \in 1..12 :
              derived.link.metadata.month = MonthNames[m] => OccursAnyCase(MonthNames[m])

\* A month written in capitals is recorded under its canonical name.
C23_Witness ==
    /\ sampled.kind = "link"
    /\ Contains(sampled.text, <<"J", "U", "N", "E">>)
    /\ derived.link.metadata.month = MonthNames[6]

\* C27: a text of Paper 3 with '(Stats)' or '(Statistics)' is classified
\* Statistics and saved under the Statistics folder, one with '(Mech)' or
\* '(Mechanics)' is classified Mechanics and saved under the Mechanics folder.
C27_ParenthesizedSubtype ==
    (sampled.kind = "link" /\ Contains(CONFIGS[sampled.section].name, S_Paper3)) =>
        /\ (Contains(sampled.text, <<"(", "M", "e", "c", "h", ")">>) \/ Contains(sampled.text, <<"(", "M", "e", "c", "h", "a", "n", "i", "c", "s", ")">>)) =>
              /\ derived.link.metadata.subtype = S_Mechanics
              /\ SubtypeFolders = <<S_Mechanics>>
        /\ StatisticsInParentheses =>
              /\ derived.link.metadata.subtype = S_Statistics
              /\ SubtypeFolders = <<S_Statistics>>

(***************************************************************************)
(* Properties of scrapers.determine_paper_number.                          *)
(***************************************************************************)
\* A link of an OCR board that reaches determine_paper_number.
OcrSample ==
    /\ sampled.kind = "paper"
    /\ sampled.board \in {"ocr_alevel", "ocr_mei_alevel"}
    /\ ActualHref(sampled.href) # None

\* The number of the 'Component N' token of the anchor text, None for none.
TextComponent == SearchNumberAfter(Strip(sampled.text), <<"C", "o", "m", "p", "o", "n", "e", "n", "t", " ">>)

\* The number of the numeric token of the URL: 'component-N' in any letter
\* case for ocr_alevel, 'Paper-N' for ocr_mei_alevel.
UrlNumber ==
    IF sampled.board = "ocr_alevel"
    THEN SearchNumberAfter(Lower(ActualHref(sampled.href)), S_component_dash)
    ELSE SearchNumberAfter(ActualHref(sampled.href), S_Paper_dash)

\* A subject keyword of the board occurs in the URL.
SubjectInUrl ==
    LET low == Lower(ActualHref(sampled.href))
    IN  \/ Contains(low, S_mech) \/ Contains(low, S_stats) \/ Contains(low, S_statistics)
        \/ sampled.board = "ocr_alevel" /\ Contains(low, <<"p", "u", "r", "e", "-", "m", "a", "t", "h", "e", "m", "a", "t", "i", "c", "s">>)
        \/ sampled.board = "ocr_mei_alevel" /\ Contains(low, <<"c", "o", "m", "p">>)

LegacySample ==
    /\ sampled.kind = "paper"
    /\ sampled.board \in {"ocr_alevel", "aqa_alevel", "edexcel_alevel"}

\* Both save the link.
BothSaved == derived.unified.outcome = "ok" /\ derived.legacy.outcome = "ok"

ThroughRedirect == Contains(sampled.href, <<"p", "d", "f", "-", "p", "a", "g", "e", "s">>)

SampledHeading == SectionHeading(sampled.elements, CONFIGS[sampled.section])

\* The first heading or rule after the heading of the section; the end of
\* the page when there is none.
SectionEnd ==
    Min({i \in (SampledHeading + 1)..Len(sampled.elements) :
            \/ sampled.elements[i].kind = "hr"
            \/ sampled.elements[i].kind \in HeadingKinds}
        \cup {Len(sampled.elements) + 1})

\* C26: every link collected for a section lies after the heading of the
\* section and before the next heading or rule.
C26_LinksWithinSection ==
    (sampled.kind = "page" /\ derived.section.status = "ok") =>
        \A k \in 1..Len(derived.section.links) :
            \E i \in (SampledHeading + 1)..(SectionEnd - 1) :
                \E j \in 1..Len(sampled.elements[i].links) :
                    sampled.elements[i].links[j].href = derived.section.links[k].href


(***************************************************************************)
(* C28: a run whose fetch of the source page fails.  The ledger is         *)
(* initialised at line 276, before the request of lines 286-292.           *)
(***************************************************************************)
FetchFailed == pc = "idle" /\ lastLog = "fetch_failed"

\* C28 as stated: a run of main.scrape_pmt_papers whose fetch of the source
\* page fails returns False and leaves the entries of the ledger as they were
\* before the run, whatever resume is.
C28_FailedFetchKeepsLedger ==
    FetchFailed => lastReturn = "False" /\ ledger = ledgerAtStart

\* C28 amended: the run returns False; with resume=True the entries are those
\* of before the run, with resume=False the ledger holds the header only.
C28_FailedFetchKeepsLedgerWithResume ==
    FetchFailed =>
        /\ lastReturn = "False"
        /\ ledger = IF resume THEN ledgerAtStart ELSE <<>>

\* A failed fetch with resume after a run that recorded entries.
C28_Witness ==
    /\ FetchFailed
    /\ ledgerAtStart # <<>>
    /\ resume
    /\ ledger = ledgerAtStart


(***************************************************************************)
(* C29: the resume test of lines 403-414 against the entries of the        *)
(* ledger.                                                                 *)
(***************************************************************************)
\* The link that the last step of the loop dealt with.
SkippedLink == links[linkIdx - 1]

\* The ledger holds an entry for the artifact of a link: the same section
\* and the same destination.
HoldsArtifact(rows, link) ==
    \E i \in 1..Len(rows) :
        /\ rows[i].paper_type = link.metadata.paper_type
        /\ rows[i].file_path = link.save_path

\* C29 as stated: a link is skipped as already downloaded only if the ledger
\* holds an entry for that same artifact, of the same section and the same
\* destination file_path, and not only an entry of another artifact with
\* the same file name.
C29_SkippedOnlyIfSameArtifact ==
    (pc = "link" /\ lastLog = "already_downloaded") =>
        HoldsArtifact(ledger, SkippedLink)


(***************************************************************************)
(* C30: the files a run leaves in the output tree, lines 234-266 and       *)
(* 452-477.                                                                *)
(***************************************************************************)
\* The destinations of the run's transfers that hold what a failed transfer
\* wrote: the file open(save_path, 'wb') made, with the blocks streamed
\* before the error.
PartialFiles == {p \in transferred : p \in DOMAIN disk /\ disk[p] = "part"}

\* C30 as stated: after a run of main.scrape_pmt_papers every file the run
\* wrote into the output tree has a ledger entry; a link whose transfer fails,
\* at any attempt and also part-way through writing, leaves no file at its
\* destination path.
C30_WrittenFilesRecorded ==
    (pc = "idle" /\ lastLog = "complete") =>
        \A p \in PartialFiles : \E i \in 1..Len(ledger) : ledger[i].file_path = p

====
